---- MODULE Spec2Model ----
(***************************************************************************)
(* Loan / KYC ledger of rn-fintech-backend as a state machine.             *)
(*                                                                         *)
(* The state is the relational store (Loan, KYCDocument and AuditLog       *)
(* tables) plus the last HTTP exchange.  Every action is one HTTP request  *)
(* handled from the first middleware to the response, including the global *)
(* error handler.  Rows are kept in creation order, so a row's id is its   *)
(* position in the table and createdAt grows with the id.                  *)
(***************************************************************************)
EXTENDS Integers, Sequences, FiniteSets, TLC

VARIABLES
  loans,      \* Loan table: sequence of rows, row i has id i
  kycDocs,    \* KYCDocument table: sequence of rows, row i has id i
  auditLogs,  \* AuditLog table, in insertion order
  clock,      \* number of committed primary mutations (the time of the store)
  users,      \* User table: sequence of rows, row i has id i
  signups,    \* the signups in flight: for each, the body that passed the check
  awaiting,   \* the requests whose primary mutation has committed and whose
              \* audit entry is not written yet
  last        \* the last request and the response it got

vars == <<loans, kycDocs, auditLogs, clock, users, signups, awaiting, last>>

(* ---- bounds of the model ---------------------------------------------- *)
\* Loans that can be created, and primary mutations (creates and updates)
\* that can be committed, in one behaviour.
MaxLoans == 2
MaxMutations == 3

\* The same, and the KYC documents that can be created, where every endpoint
\* of the API is called with every kind of credential.
ApiMaxLoans == 1
ApiMaxDocs == 1
ApiMaxMutations == 2

\* KYC documents that can be created, and KYC mutations (registrations,
\* finalizations and decisions) that can be committed, in one behaviour.
KycMaxDocs == 2
KycMaxMutations == 4

\* Documents in the list a KYC completion is computed over.
CompletionMaxDocs == 3

\* Users that can be created in one behaviour.
MaxUsers == 3

\* Loans and KYC documents that can be created, and primary mutations that
\* can be committed, while requests overlap.
OverlapMaxLoans == 1
OverlapMaxDocs == 1
OverlapMaxMutations == 3

\* Primary mutations that can be committed where decisions are made beside
\* applications and KYC registrations.
DecideMaxMutations == 4

(* ---- principals -------------------------------------------------------- *)
NULL == "null"

Roles == {"CUSTOMER", "MERCHANT", "BANKER"}

\* The user directory the requests are made against: a customer, a merchant
\* and two bankers.  The role is fixed at signup.
Users == {"c1", "m1", "b1", "b2"}

UserRole(u) ==
  CASE u = "c1" -> "CUSTOMER"
    [] u = "m1" -> "MERCHANT"
    [] OTHER    -> "BANKER"

\* A credential is the Authorization header of the request: a bearer token
\* issued to a user, or one of the ways of having none.
BadCredentials == {"missing", "expired"}
Credentials == Users \cup BadCredentials

\* jwt.sign payload: the token carries the user's id and role.
generateAccessToken(u) == [userId |-> u, role |-> UserRole(u)]

\* The signup requests that can be in flight at once, and the entry of one
\* that is not.
SignupProcs == {1, 2}

NoSignup ==
  [pending |-> FALSE, name |-> NULL, email |-> NULL, phone |-> NULL,
   password |-> NULL, role |-> NULL]

(* ---- errors and the global error handler ------------------------------- *)
\* An Error object as thrown by the code: err.status (0 when unset),
\* err.message and whether it is a Joi validation error.
Err(status, message) == [status |-> status, message |-> message, isJoi |-> FALSE]

ValidationFailed == [status |-> 400, message |-> "Validation failed", isJoi |-> TRUE]

\* prisma.*.update on a missing row throws P2025, which carries no status.
RecordNotFound == Err(0, "Record to update not found")

\* A TypeError thrown by notes.substring on a non-string value.
NotAFunction == Err(0, "notes.substring is not a function")

\* err.message.includes('token')
MessageIncludesToken(message) == message \in {"Invalid or expired token"}

\* errorHandler(err): the status code and the message of the error response.
errorHandler(err) ==
  IF err.isJoi
    THEN [statusCode |-> 400, message |-> "Validation failed"]
    ELSE IF MessageIncludesToken(err.message)
      THEN [statusCode |-> 401, message |-> "Invalid or missing token"]
      ELSE [statusCode |-> IF err.status # 0 THEN err.status ELSE 500,
            message    |-> err.message]

(* ---- authMiddleware ----------------------------------------------------- *)
\* extractTokenFromHeader + verifyToken: the decoded principal, or the error.
authenticate(cred) ==
  CASE cred = "missing" ->
         [ok |-> FALSE, user |-> [userId |-> NULL, role |-> NULL],
          err |-> Err(401, "Missing or invalid Authorization header")]
    [] cred = "expired" ->
         [ok |-> FALSE, user |-> [userId |-> NULL, role |-> NULL],
          err |-> Err(401, "Invalid or expired token")]
    [] OTHER ->
         [ok |-> TRUE, user |-> generateAccessToken(cred), err |-> Err(0, "")]

\* authorize(roles)(req): TRUE when the request passes the allow-list.
authorize(roles, role) == roles = {} \/ role \in roles

InsufficientPermissions == Err(403, "Insufficient permissions")

(* ---- validation (Joi) --------------------------------------------------- *)
LoanTypes == {"PERSONAL", "BUSINESS", "VEHICLE", "EQUIPMENT"}

MinLoanAmount == 1000
MaxLoanAmount == 5000000

\* Joi.string().valid(...).required()
ValidLoanType(type) == type \in LoanTypes

\* Joi.number().min(1000).max(5000000).required()
ValidLoanAmountExclusive(amount) == MinLoanAmount < amount /\ amount < MaxLoanAmount

ValidLoanAmount(amount) == MinLoanAmount <= amount /\ amount <= MaxLoanAmount

\* Joi.string().uuid().optional().allow(null): a user id stands for a
\* well-formed uuid, "not-a-uuid" for a malformed one.
ValidMerchantRef(merchantId) == merchantId = NULL \/ merchantId \in Users

\* validateLoan(validationSchemas.loanApply, body): TRUE when it does not throw.
validateLoanApply(body) ==
  /\ ValidLoanType(body.type)
  /\ ValidLoanAmount(body.amount)
  /\ ValidMerchantRef(body.merchantId)

(* ---- LoanService -------------------------------------------------------- *)
createAuditLogUpsert(log, loanId, action, actorId, now, ok) ==
  IF ok
    THEN <<[loanId |-> loanId, action |-> action, actorId |-> actorId,
            createdAt |-> now]>>
    ELSE log

\* createAuditLog: the row is inserted unless the insert throws; the error is
\* caught and swallowed, so the caller never sees it.
createAuditLog(log, loanId, action, actorId, now, ok) ==
  IF ok
    THEN Append(log, [loanId |-> loanId, action |-> action, actorId |-> actorId,
                      createdAt |-> now])
    ELSE log

\* The row prisma.loan.create inserts in createLoan.
createLoanRow(table, loanData, userId, now) ==
  [id |-> Len(table) + 1, type |-> loanData.type, amount |-> loanData.amount,
   status |-> "PENDING", applicantId |-> userId,
   merchantId |-> loanData.merchantId,
   bankerId |-> NULL, createdAt |-> now, updatedAt |-> now]

\* getLoanById: canAccess.
canAccess(loan, userId) ==
  \/ loan.applicantId = userId
  \/ loan.merchantId = userId
  \/ (userId # NULL /\ loan.bankerId = userId)

\* getLoanById: the error it throws, or Err(0, "") when it returns the loan.
getLoanById(table, loanId, userId) ==
  IF loanId \notin 1..Len(table)
    THEN Err(404, "Loan not found")
    ELSE IF ~canAccess(table[loanId], userId)
      THEN Err(403, "Unauthorized access to loan")
      ELSE Err(0, "")

\* The auditLogs relation included by getLoanById: the 5 most recent entries
\* of the loan, newest first, as positions in the AuditLog table.
RECURSIVE NewestFirst(_, _)
NewestFirst(log, loanId) ==
  IF log = <<>> THEN <<>>
  ELSE IF log[Len(log)].loanId = loanId
    THEN <<Len(log)>> \o NewestFirst(SubSeq(log, 1, Len(log) - 1), loanId)
    ELSE NewestFirst(SubSeq(log, 1, Len(log) - 1), loanId)

Take(seq, n) == SubSeq(seq, 1, IF n < Len(seq) THEN n ELSE Len(seq))

RecentAuditLimit == 5

recentAuditLogs(log, loanId) == Take(NewestFirst(log, loanId), RecentAuditLimit)

\* getUserLoans: the where clause built from the role, then the filters
\* assigned on top of it (an assignment to whereClause.status replaces the
\* status the role put there).
NoFilters == [status |-> NULL, type |-> NULL, minAmount |-> 0, limit |-> 0]

roleWhereClauseBankerAll(userId, role) ==
  CASE role = "CUSTOMER" -> [owner |-> "applicant", status |-> NULL]
    [] role = "MERCHANT" -> [owner |-> "applicantOrMerchant", status |-> NULL]
    [] role = "BANKER"   -> [owner |-> "any", status |-> NULL]
    [] OTHER             -> [owner |-> "applicant", status |-> NULL]

roleWhereClause(userId, role) ==
  CASE role = "CUSTOMER" -> [owner |-> "applicant", status |-> NULL]
    [] role = "MERCHANT" -> [owner |-> "applicantOrMerchant", status |-> NULL]
    [] role = "BANKER"   -> [owner |-> "any", status |-> "PENDING"]
    [] OTHER             -> [owner |-> "applicant", status |-> NULL]

whereClause(userId, role, filters) ==
  LET base == roleWhereClause(userId, role) IN
  [owner     |-> base.owner,
   status    |-> IF filters.status # NULL THEN filters.status ELSE base.status,
   type      |-> filters.type,
   minAmount |-> filters.minAmount]

\* Whether a row satisfies the where clause (prisma.loan.findMany).
matchesWhere(loan, where, userId) ==
  /\ CASE where.owner = "applicant" -> loan.applicantId = userId
       [] where.owner = "applicantOrMerchant" ->
            loan.applicantId = userId \/ loan.merchantId = userId
       [] OTHER -> TRUE
  /\ where.status = NULL \/ loan.status = where.status
  /\ where.type = NULL \/ loan.type = where.type
  /\ where.minAmount = 0 \/ loan.amount >= where.minAmount

\* orderBy createdAt desc: the ids of the matching rows, newest first.
RECURSIVE findManyDesc(_, _, _)
findManyDesc(table, where, userId) ==
  IF table = <<>> THEN <<>>
  ELSE LET n == Len(table)
           rest == findManyDesc(SubSeq(table, 1, n - 1), where, userId)
       IN IF matchesWhere(table[n], where, userId) THEN <<n>> \o rest ELSE rest

ServiceDefaultLimit == 20

\* getUserLoans(userId, role, filters): take: filters.limit || 20.
getUserLoans(table, userId, role, filters) ==
  Take(findManyDesc(table, whereClause(userId, role, filters), userId),
       IF filters.limit # 0 THEN filters.limit ELSE ServiceDefaultLimit)

updateLoanRowNoBanker(loan, status, userId, now) ==
  [loan EXCEPT !.status = status, !.updatedAt = now]

updateLoanRowReopen(loan, status, userId, now) ==
  [loan EXCEPT !.status = IF loan.status = "PENDING" THEN status ELSE "PENDING",
               !.bankerId = userId, !.updatedAt = now]

updateLoanRowApplicant(loan, status, userId, now) ==
  [loan EXCEPT !.status = status, !.applicantId = userId, !.updatedAt = now]

updateLoanRowFirstBanker(loan, status, userId, now) ==
  [loan EXCEPT !.status = status,
               !.bankerId = IF loan.bankerId = NULL THEN userId ELSE loan.bankerId,
               !.updatedAt = now]

\* updateLoanStatus: the data of prisma.loan.update.
updateLoanRow(loan, status, userId, now) ==
  [loan EXCEPT !.status = status, !.bankerId = userId, !.updatedAt = now]

validStatuses == {"APPROVED", "REJECTED"}

auditActionApprovedOnly(status) == "LOAN_APPROVED"

auditAction(status) == IF status = "APPROVED" THEN "LOAN_APPROVED" ELSE "LOAN_REJECTED"

\* getMerchantAnalytics: the where clause shared by the four queries, and the
\* { ...whereClause, status: 'APPROVED' } of the approved ones.
analyticsScope(table, merchantId, statusFilter) ==
  {i \in 1..Len(table) :
     /\ table[i].merchantId = merchantId
     /\ statusFilter = NULL \/ table[i].status = statusFilter}

analyticsApprovedScope(table, merchantId, statusFilter) ==
  {i \in 1..Len(table) :
     /\ table[i].merchantId = merchantId
     /\ table[i].status = "APPROVED"}

\* _sum: { amount } over the rows of ids.
RECURSIVE sumAmount(_, _)
sumAmount(table, ids) ==
  IF ids = {} THEN 0
  ELSE LET i == CHOOSE x \in ids : TRUE
       IN table[i].amount + sumAmount(table, ids \ {i})

\* loans.reduce((sum, loan) => sum + (updatedAt - createdAt), 0)
RECURSIVE sumApprovalTime(_, _)
sumApprovalTime(table, ids) ==
  IF ids = {} THEN 0
  ELSE LET i == CHOOSE x \in ids : TRUE
       IN (table[i].updatedAt - table[i].createdAt) + sumApprovalTime(table, ids \ {i})

\* Math.round(n / d) for n >= 0, d > 0.
Round(n, d) == (2 * n + d) \div (2 * d)

getMerchantAnalytics(table, merchantId, statusFilter) ==
  LET total    == Cardinality(analyticsScope(table, merchantId, statusFilter))
      approved == analyticsApprovedScope(table, merchantId, statusFilter)
  IN [totalLoans              |-> total,
      approvedLoans           |-> Cardinality(approved),
      approvalRate            |-> IF total > 0
                                    THEN Round(Cardinality(approved) * 100, total)
                                    ELSE 0,
      totalApprovedAmount     |-> sumAmount(table, approved),
      averageApprovalTimeDays |-> IF approved = {} THEN 0
                                    ELSE Round(sumApprovalTime(table, approved),
                                               Cardinality(approved))]

(* ---- requests and responses ---------------------------------------------- *)
NoAnalytics ==
  [totalLoans |-> 0, approvedLoans |-> 0, approvalRate |-> 0,
   totalApprovedAmount |-> 0, averageApprovalTimeDays |-> 0]

\* updateUserProfile: an updateData with no key (NULL: the key is absent).
NoUpdate ==
  [name |-> NULL, phone |-> NULL, role |-> NULL, email |-> NULL,
   passwordHash |-> NULL, id |-> NULL]

\* A request: the endpoint, the Authorization header, the :id parameter and
\* the fields of the body or query the endpoint reads (NULL, 0 or -1: absent).
BlankRequest ==
  [op |-> NULL, cred |-> NULL, loanId |-> 0, type |-> NULL, amount |-> 0,
   merchantId |-> NULL, notes |-> NULL, status |-> NULL, limit |-> -1,
   kycDocId |-> 0, docType |-> NULL, publicId |-> 0, fileSize |-> 0,
   contentType |-> NULL, role |-> NULL, documents |-> <<>>,
   proc |-> 0, name |-> NULL, email |-> NULL, phone |-> NULL, password |-> NULL,
   userId |-> 0, updateData |-> NoUpdate]

NoCompletion ==
  [percentComplete |-> 0, completed |-> 0, pending |-> 0, incomplete |-> 0,
   status |-> NULL, needsAction |-> FALSE]

\* A response: the HTTP status, the message, and the data the claims read:
\* the loan of data.loan, the ids of data.loans, data.recentActivity, the
\* analytics, and for KYC the document, the ids of data.documents, the types
\* of data.requiredDocuments and data.completion.
BlankResponse ==
  [statusCode |-> 0, message |-> NULL, loanId |-> 0, loans |-> <<>>,
   recentActivity |-> <<>>, analytics |-> NoAnalytics,
   kycDocId |-> 0, documents |-> <<>>, requiredDocuments |-> <<>>,
   completion |-> NoCompletion, userId |-> 0, token |-> 0]

\* The requests that can be in flight at once, and the entry of one that is
\* not between its primary mutation and its audit entry.
RequestProcs == {1, 2}

NoAwait ==
  [pending |-> FALSE, req |-> BlankRequest, res |-> BlankResponse,
   loanId |-> 0, action |-> NULL, actorId |-> NULL]

Success(statusCode, message) ==
  [BlankResponse EXCEPT !.statusCode = statusCode, !.message = message]

ErrorResponse(err) ==
  LET r == errorHandler(err)
  IN [BlankResponse EXCEPT !.statusCode = r.statusCode, !.message = r.message]

auditLogRethrown(res, ok) ==
  IF ok THEN res ELSE ErrorResponse(Err(0, "audit log insert failed"))

\* createAuditLog and createKYCAuditLog, catch block: the error of a failed
\* insert is logged and not thrown, and the caller goes on to its answer.
auditLogCaught(res, ok) == res

\* next(error): the error handler answers and the store is left as it is.
Fail(req, err) ==
  /\ last' = [req |-> req, res |-> ErrorResponse(err)]
  /\ UNCHANGED <<loans, kycDocs, auditLogs, clock, users, signups, awaiting>>

\* A read handler answers and the store is left as it is.
Answer(req, res) ==
  /\ last' = [req |-> req, res |-> res]
  /\ UNCHANGED <<loans, kycDocs, auditLogs, clock, users, signups, awaiting>>

(* ---- LoanController ------------------------------------------------------ *)
ApplicantRolesAll == Roles

ApplicantRoles == {"CUSTOMER", "MERCHANT"}

finalMerchantIdAnyRole(user, merchantId) ==
  IF merchantId # NULL THEN user.userId ELSE NULL

finalMerchantIdReferenced(user, merchantId) ==
  IF user.role = "MERCHANT" /\ merchantId # NULL THEN merchantId ELSE NULL

\* apply: finalMerchantId.
finalMerchantId(user, merchantId) ==
  IF user.role = "MERCHANT" /\ merchantId # NULL THEN user.userId ELSE NULL

\* POST /loan/apply: [authenticate, LoanController.apply]
apply(cred, type, amount, merchantId, auditOk) ==
  LET req  == [BlankRequest EXCEPT !.op = "apply", !.cred = cred, !.type = type,
                                   !.amount = amount, !.merchantId = merchantId]
      auth == authenticate(cred)
      user == auth.user
  IN IF ~auth.ok THEN Fail(req, auth.err)
     ELSE IF user.role \notin ApplicantRoles
       THEN Fail(req, Err(403, "Only customers and merchants can apply for loans"))
     ELSE IF ~validateLoanApply(req) THEN Fail(req, ValidationFailed)
     ELSE
       /\ LET now  == clock + 1
              loan == createLoanRow(
                        loans,
                        [type |-> type, amount |-> amount,
                         merchantId |-> finalMerchantId(user, merchantId)],
                        user.userId, now)
          IN /\ loans' = Append(loans, loan)
             /\ UNCHANGED <<kycDocs, users, signups, awaiting>>
             /\ auditLogs' = createAuditLog(auditLogs, loan.id, "LOAN_CREATED",
                                            user.userId, now, auditOk)
             /\ clock' = now
             /\ last' = [req |-> req,
                         res |-> auditLogCaught(
                                   [Success(201, "Loan application submitted successfully")
                                      EXCEPT !.loanId = loan.id], auditOk)]

\* GET /loan/:id/status: [authenticate, LoanController.getStatus]
getStatus(cred, loanId) ==
  LET req  == [BlankRequest EXCEPT !.op = "getStatus", !.cred = cred,
                                   !.loanId = loanId]
      auth == authenticate(cred)
      err  == getLoanById(loans, loanId, auth.user.userId)
  IN IF ~auth.ok THEN Fail(req, auth.err)
     ELSE IF err.status # 0 THEN Fail(req, err)
     ELSE Answer(req, [Success(200, "Loan status")
                         EXCEPT !.loanId = loanId,
                                !.recentActivity = recentAuditLogs(auditLogs, loanId)])

ControllerDefaultLimit == 10

\* listLoans: const { status, type, limit = 10 } = req.query; parseInt(limit).
listFilters(status, type, limit) ==
  [status |-> status, type |-> type, minAmount |-> 0,
   limit |-> IF limit = -1 THEN ControllerDefaultLimit ELSE limit]

\* GET /loan/list: [authenticate, LoanController.listLoans]
listLoans(cred, status, type, limit) ==
  LET req  == [BlankRequest EXCEPT !.op = "listLoans", !.cred = cred,
                                   !.status = status, !.type = type, !.limit = limit]
      auth == authenticate(cred)
  IN IF ~auth.ok THEN Fail(req, auth.err)
     ELSE Answer(req, [Success(200, "Found loan(s)")
                         EXCEPT !.loans = getUserLoans(loans, auth.user.userId,
                                                       auth.user.role,
                                                       listFilters(status, type, limit))])

\* updateLoanStatus as called by approve and reject, up to the response.
decide(req, user, status, auditOk) ==
  IF status \notin validStatuses THEN Fail(req, Err(400, "Invalid status transition"))
  ELSE IF req.loanId \notin 1..Len(loans) THEN Fail(req, RecordNotFound)
  ELSE
    /\ LET now == clock + 1 IN
       /\ loans' = [loans EXCEPT ![req.loanId] =
                      updateLoanRow(loans[req.loanId], status, user.userId, now)]
       /\ auditLogs' = createAuditLog(auditLogs, req.loanId, auditAction(status),
                                      user.userId, now, auditOk)
       /\ clock' = now
       /\ UNCHANGED <<kycDocs, users, signups, awaiting>>
       /\ last' = [req |-> req,
                   res |-> IF req.notes = "nonstring"
                             THEN ErrorResponse(NotAFunction)
                             ELSE auditLogCaught([Success(200, "Loan decided")
                                                    EXCEPT !.loanId = req.loanId],
                                                 auditOk)]

\* POST /loan/:id/approve: [authenticate, authorize(['BANKER']), approve]
approve(cred, loanId, notes, auditOk) ==
  LET req  == [BlankRequest EXCEPT !.op = "approve", !.cred = cred,
                                   !.loanId = loanId, !.notes = notes]
      auth == authenticate(cred)
  IN IF ~auth.ok THEN Fail(req, auth.err)
     ELSE IF ~authorize({"BANKER"}, auth.user.role)
       THEN Fail(req, InsufficientPermissions)
     ELSE IF auth.user.role # "BANKER"
       THEN Fail(req, Err(403, "Only bankers can approve loans"))
     ELSE decide(req, auth.user, "APPROVED", auditOk)

\* POST /loan/:id/reject: [authenticate, authorize(['BANKER']), reject]
reject(cred, loanId, notes, auditOk) ==
  LET req  == [BlankRequest EXCEPT !.op = "reject", !.cred = cred,
                                   !.loanId = loanId, !.notes = notes]
      auth == authenticate(cred)
  IN IF ~auth.ok THEN Fail(req, auth.err)
     ELSE IF ~authorize({"BANKER"}, auth.user.role)
       THEN Fail(req, InsufficientPermissions)
     ELSE IF auth.user.role # "BANKER"
       THEN Fail(req, Err(403, "Only bankers can reject loans"))
     ELSE decide(req, auth.user, "REJECTED", auditOk)

\* GET /loan/analytics/merchant: [authenticate, authorize(['MERCHANT']), ...]
merchantAnalytics(cred, status) ==
  LET req  == [BlankRequest EXCEPT !.op = "merchantAnalytics", !.cred = cred,
                                   !.status = status]
      auth == authenticate(cred)
  IN IF ~auth.ok THEN Fail(req, auth.err)
     ELSE IF ~authorize({"MERCHANT"}, auth.user.role)
       THEN Fail(req, InsufficientPermissions)
     ELSE IF auth.user.role # "MERCHANT"
       THEN Fail(req, Err(403, "Only merchants can view analytics"))
     ELSE Answer(req, [Success(200, "Merchant analytics retrieved")
                         EXCEPT !.analytics =
                           getMerchantAnalytics(loans, auth.user.userId, status)])

(* ---- KYCService --------------------------------------------------------- *)
DocTypes == {"ID_PROOF", "ADDRESS_PROOF", "PAN_CARD", "BANK_STATEMENT"}

\* A url is the number of the publicId it is built from; 0 is null.
urlOf(publicId) == publicId

\* createKYCDocument(userId, type, status, publicId): the inserted row.
createKYCDocument(table, userId, type, status, publicId, now) ==
  [id |-> Len(table) + 1, type |-> type,
   url |-> IF publicId # 0 THEN urlOf(publicId) ELSE 0,
   status |-> status, userId |-> userId, verifiedBy |-> NULL, createdAt |-> now]

\* generateUploadUrl: the publicId it makes up is new; it is numbered after
\* the row it is made for.
newPublicId(table) == Len(table) + 1

KycMaxFileSize == 5242880

KycAllowedTypes == {"image/jpeg", "image/png", "application/pdf"}

completeUploadCheckInclusive(fileSize, contentType) ==
  IF fileSize >= KycMaxFileSize THEN Err(413, "File size exceeds 5MB limit")
  ELSE IF contentType \notin KycAllowedTypes
    THEN Err(415, "Invalid file type. Only JPG, PNG, PDF allowed")
    ELSE Err(0, "")

\* completeUpload: the error of the file checks, Err(0, "") when they pass.
completeUploadCheck(fileSize, contentType) ==
  IF fileSize > KycMaxFileSize THEN Err(413, "File size exceeds 5MB limit")
  ELSE IF contentType \notin KycAllowedTypes
    THEN Err(415, "Invalid file type. Only JPG, PNG, PDF allowed")
    ELSE Err(0, "")

\* completeUpload: the data of prisma.kYCDocument.update.
completeUploadRow(doc, publicId) ==
  [doc EXCEPT !.url = urlOf(publicId), !.status = "PENDING", !.verifiedBy = NULL]

verifyKYCDocumentRowAlwaysReviewer(doc, status, bankerId) ==
  [doc EXCEPT !.status = status, !.verifiedBy = bankerId]

\* verifyKYCDocument: the data of prisma.kYCDocument.update.
verifyKYCDocumentRow(doc, status, bankerId) ==
  [doc EXCEPT !.status = status,
              !.verifiedBy = IF status = "VERIFIED" THEN bankerId ELSE NULL]

kycValidStatuses == {"VERIFIED", "REJECTED"}

kycVerifyAction(status) == IF status = "VERIFIED" THEN "KYC_VERIFIED" ELSE "KYC_REJECTED"

\* createKYCAuditLog: action: `KYC_${action}`.
kycAuditAction(action) ==
  CASE action = "DOCUMENT_UPLOADED" -> "KYC_DOCUMENT_UPLOADED"
    [] action = "KYC_VERIFIED"      -> "KYC_KYC_VERIFIED"
    [] action = "KYC_REJECTED"      -> "KYC_KYC_REJECTED"

\* createKYCAuditLog: loanId null; a failing insert is swallowed.
createKYCAuditLog(log, action, actorId, now, ok) ==
  IF ok
    THEN Append(log, [loanId |-> 0, action |-> kycAuditAction(action),
                      actorId |-> actorId, createdAt |-> now])
    ELSE log

\* getUserKYCDocuments(userId, status): the ids of the user's documents,
\* newest first, of the given status when one is given.
RECURSIVE getUserKYCDocuments(_, _, _)
getUserKYCDocuments(table, userId, status) ==
  IF table = <<>> THEN <<>>
  ELSE LET n    == Len(table)
           rest == getUserKYCDocuments(SubSeq(table, 1, n - 1), userId, status)
       IN IF /\ table[n].userId = userId
             /\ status = NULL \/ table[n].status = status
            THEN <<n>> \o rest ELSE rest

\* findMany({ where: { status: 'PENDING' }, orderBy: { createdAt: 'asc' } })
RECURSIVE pendingOldestFirst(_)
pendingOldestFirst(table) ==
  IF table = <<>> THEN <<>>
  ELSE LET n    == Len(table)
           rest == pendingOldestFirst(SubSeq(table, 1, n - 1))
       IN IF table[n].status = "PENDING" THEN rest \o <<n>> ELSE rest

\* getPendingKYCForReview(bankerId, limit)
getPendingKYCForReview(table, limit) == Take(pendingOldestFirst(table), limit)

\* getKYCForReview: the error it throws, Err(0, "") when it returns.
getKYCForReview(table, kycDocId) ==
  IF kycDocId \notin 1..Len(table) THEN Err(404, "KYC document not found")
  ELSE Err(0, "")

\* getRequiredDocuments(userRole, loanType): the required types in order.
baseRequirements(userRole) ==
  CASE userRole = "CUSTOMER" -> <<"ID_PROOF", "ADDRESS_PROOF", "PAN_CARD">>
    [] userRole = "MERCHANT" ->
         <<"ID_PROOF", "ADDRESS_PROOF", "PAN_CARD", "BANK_STATEMENT">>
    [] OTHER -> <<>>

loanSpecificNone(loanType) == <<>>

loanSpecific(loanType) ==
  CASE loanType = "BUSINESS"  -> <<"BANK_STATEMENT">>
    [] loanType = "VEHICLE"   -> <<"ADDRESS_PROOF">>
    [] loanType = "EQUIPMENT" -> <<"BANK_STATEMENT">>
    [] OTHER                  -> <<>>

DedupNone(seq) == seq

\* [...new Set(seq)]: the first occurrence of every element, in order.
RECURSIVE Dedup(_)
Dedup(seq) ==
  IF seq = <<>> THEN <<>>
  ELSE LET n    == Len(seq)
           rest == Dedup(SubSeq(seq, 1, n - 1))
       IN IF \E k \in 1..Len(rest) : rest[k] = seq[n] THEN rest
          ELSE Append(rest, seq[n])

getRequiredDocuments(userRole, loanType) ==
  IF loanType # NULL
    THEN Dedup(baseRequirements(userRole) \o loanSpecific(loanType))
    ELSE baseRequirements(userRole)

(* ---- KYCController ------------------------------------------------------- *)
completedTypesAnyStatus(table, documents) ==
  {table[documents[k]].type : k \in 1..Len(documents)}

\* calculateKYCCompletion: new Set(documents.filter(VERIFIED).map(type)) and
\* the same for PENDING.
completedTypes(table, documents) ==
  {table[d].type : d \in {x \in {documents[k] : k \in 1..Len(documents)} :
                            table[x].status = "VERIFIED"}}

pendingTypes(table, documents) ==
  {table[d].type : d \in {x \in {documents[k] : k \in 1..Len(documents)} :
                            table[x].status = "PENDING"}}

\* calculateKYCCompletion(documents, requiredDocs); documents are ids of rows.
calculateKYCCompletion(table, documents, requiredDocs) ==
  LET totalRequired  == Len(requiredDocs)
      completed      == Cardinality({k \in 1..totalRequired :
                                       requiredDocs[k] \in completedTypes(table, documents)})
      pending        == Cardinality({k \in 1..totalRequired :
                                       requiredDocs[k] \in pendingTypes(table, documents)})
      incomplete     == totalRequired - completed - pending
  IN [percentComplete |-> IF totalRequired > 0 THEN Round(completed * 100, totalRequired)
                          ELSE 0,
      completed   |-> completed,
      pending     |-> pending,
      incomplete  |-> incomplete,
      status      |-> IF totalRequired = 0 THEN "NOT_REQUIRED"
                      ELSE IF completed = totalRequired THEN "COMPLETE"
                      ELSE IF pending > 0 THEN "IN_PROGRESS" ELSE "INCOMPLETE",
      needsAction |-> pending + incomplete > 0]

\* Joi schemas kycUploadUrl, kycCompleteUpload and kycVerify: TRUE when
\* validateKYC does not throw.
validateKycUploadUrl(body) == body.docType \in DocTypes

validateKycCompleteUpload(body) ==
  /\ body.kycDocId > 0
  /\ body.publicId > 0
  /\ body.fileSize >= 1
  /\ body.contentType \in {"image/jpeg", "image/png", "application/pdf"}

validateKycVerify(body) == body.status \in {"VERIFIED", "REJECTED"}

\* POST /kyc/upload-url: [authenticate, KYCController.generateUploadUrl]
kycGenerateUploadUrl(cred, docType) ==
  LET req  == [BlankRequest EXCEPT !.op = "kycGenerateUploadUrl", !.cred = cred,
                                   !.docType = docType]
      auth == authenticate(cred)
  IN IF ~auth.ok THEN Fail(req, auth.err)
     ELSE IF auth.user.role \notin ApplicantRoles
       THEN Fail(req, Err(403, "Only customers and merchants can upload KYC documents"))
     ELSE IF ~validateKycUploadUrl(req) THEN Fail(req, ValidationFailed)
     ELSE IF docType \notin DocTypes THEN Fail(req, Err(400, "Invalid document type"))
     ELSE
       LET now == clock + 1
           doc == createKYCDocument(kycDocs, auth.user.userId, docType, "UPLOADING",
                                    newPublicId(kycDocs), now)
       IN /\ kycDocs' = Append(kycDocs, doc)
          /\ clock' = now
          /\ UNCHANGED <<loans, auditLogs, users, signups, awaiting>>
          /\ last' = [req |-> req,
                      res |-> [Success(200, "Upload signature generated")
                                 EXCEPT !.kycDocId = doc.id]]

\* POST /kyc/complete-upload: [authenticate, KYCController.completeUpload]
kycCompleteUpload(cred, kycDocId, publicId, fileSize, contentType, auditOk) ==
  LET req  == [BlankRequest EXCEPT !.op = "kycCompleteUpload", !.cred = cred,
                                   !.kycDocId = kycDocId, !.publicId = publicId,
                                   !.fileSize = fileSize, !.contentType = contentType]
      auth == authenticate(cred)
      err  == completeUploadCheck(fileSize, contentType)
  IN IF ~auth.ok THEN Fail(req, auth.err)
     ELSE IF auth.user.role \notin ApplicantRoles
       THEN Fail(req, Err(403, "Only customers and merchants can complete KYC uploads"))
     ELSE IF ~validateKycCompleteUpload(req) THEN Fail(req, ValidationFailed)
     ELSE IF err.status # 0 THEN Fail(req, err)
     ELSE IF kycDocId \notin 1..Len(kycDocs) THEN Fail(req, RecordNotFound)
     ELSE
       LET now == clock + 1 IN
       /\ kycDocs' = [kycDocs EXCEPT ![kycDocId] = completeUploadRow(kycDocs[kycDocId], publicId)]
       /\ auditLogs' = createKYCAuditLog(auditLogs, "DOCUMENT_UPLOADED", NULL, now, auditOk)
       /\ clock' = now
       /\ UNCHANGED <<loans, users, signups, awaiting>>
       /\ last' = [req |-> req,
                   res |-> auditLogCaught(
                             [Success(200, "KYC document uploaded successfully")
                                EXCEPT !.kycDocId = kycDocId], auditOk)]

\* GET /kyc/status: [authenticate, KYCController.getStatus]
kycGetStatus(cred, status) ==
  LET req  == [BlankRequest EXCEPT !.op = "kycGetStatus", !.cred = cred,
                                   !.status = status]
      auth == authenticate(cred)
      documents    == getUserKYCDocuments(kycDocs, auth.user.userId, status)
      requiredDocs == getRequiredDocuments(auth.user.role, NULL)
  IN IF ~auth.ok THEN Fail(req, auth.err)
     ELSE Answer(req, [Success(200, "KYC status")
                         EXCEPT !.documents = documents,
                                !.requiredDocuments = requiredDocs,
                                !.completion =
                                  calculateKYCCompletion(kycDocs, documents, requiredDocs)])

\* GET /kyc/required: [authenticate, KYCController.getRequired]
kycGetRequired(cred, loanType) ==
  LET req  == [BlankRequest EXCEPT !.op = "kycGetRequired", !.cred = cred,
                                   !.type = loanType]
      auth == authenticate(cred)
  IN IF ~auth.ok THEN Fail(req, auth.err)
     ELSE Answer(req, [Success(200, "Required KYC documents retrieved")
                         EXCEPT !.requiredDocuments =
                           getRequiredDocuments(auth.user.role, loanType)])

KycDefaultLimit == 20

\* GET /kyc/pending: [authenticate, authorize(['BANKER']), getPendingForReview]
kycGetPendingForReview(cred, limit) ==
  LET req  == [BlankRequest EXCEPT !.op = "kycGetPendingForReview", !.cred = cred,
                                   !.limit = limit]
      auth == authenticate(cred)
  IN IF ~auth.ok THEN Fail(req, auth.err)
     ELSE IF ~authorize({"BANKER"}, auth.user.role)
       THEN Fail(req, InsufficientPermissions)
     ELSE IF auth.user.role # "BANKER"
       THEN Fail(req, Err(403, "Only bankers can review pending KYC documents"))
     ELSE Answer(req, [Success(200, "Found pending KYC document(s)")
                         EXCEPT !.documents =
                           getPendingKYCForReview(
                             kycDocs, IF limit = -1 THEN KycDefaultLimit ELSE limit)])

\* GET /kyc/:kycDocId/review: [authenticate, authorize(['BANKER']), getForReview]
kycGetForReview(cred, kycDocId) ==
  LET req  == [BlankRequest EXCEPT !.op = "kycGetForReview", !.cred = cred,
                                   !.kycDocId = kycDocId]
      auth == authenticate(cred)
      err  == getKYCForReview(kycDocs, kycDocId)
  IN IF ~auth.ok THEN Fail(req, auth.err)
     ELSE IF ~authorize({"BANKER"}, auth.user.role)
       THEN Fail(req, InsufficientPermissions)
     ELSE IF auth.user.role # "BANKER"
       THEN Fail(req, Err(403, "Only bankers can review KYC documents"))
     ELSE IF err.status # 0 THEN Fail(req, err)
     ELSE Answer(req, [Success(200, "KYC document details for review")
                         EXCEPT !.kycDocId = kycDocId])

\* POST /kyc/:kycDocId/verify: [authenticate, authorize(['BANKER']), verify]
kycVerify(cred, kycDocId, status, auditOk) ==
  LET req  == [BlankRequest EXCEPT !.op = "kycVerify", !.cred = cred,
                                   !.kycDocId = kycDocId, !.status = status]
      auth == authenticate(cred)
  IN IF ~auth.ok THEN Fail(req, auth.err)
     ELSE IF ~authorize({"BANKER"}, auth.user.role)
       THEN Fail(req, InsufficientPermissions)
     ELSE IF auth.user.role # "BANKER"
       THEN Fail(req, Err(403, "Only bankers can verify KYC documents"))
     ELSE IF ~validateKycVerify(req) THEN Fail(req, ValidationFailed)
     ELSE IF status \notin kycValidStatuses
       THEN Fail(req, Err(400, "Status must be VERIFIED or REJECTED"))
     ELSE IF kycDocId \notin 1..Len(kycDocs) THEN Fail(req, RecordNotFound)
     ELSE
       LET now == clock + 1 IN
       /\ kycDocs' = [kycDocs EXCEPT ![kycDocId] =
                        verifyKYCDocumentRow(kycDocs[kycDocId], status, auth.user.userId)]
       /\ auditLogs' = createKYCAuditLog(auditLogs, kycVerifyAction(status),
                                         auth.user.userId, now, auditOk)
       /\ clock' = now
       /\ UNCHANGED <<loans, users, signups, awaiting>>
       /\ last' = [req |-> req,
                   res |-> auditLogCaught(
                             [Success(200, IF status = "VERIFIED"
                                             THEN "Document verified successfully"
                                             ELSE "Document rejected")
                                EXCEPT !.kycDocId = kycDocId], auditOk)]

(* ---- the inputs the requests are drawn from ------------------------------ *)
\* A behaviour stays within the bounds: no more than maxLoans loans and
\* maxMutations committed mutations.
Within(maxLoans, maxMutations) ==
  /\ Len(loans') <= maxLoans
  /\ clock' <= maxMutations

\* The store is healthy: every insert into AuditLog succeeds.
AuditHealthy == {TRUE}

LoanIdInputs == 1..MaxLoans
MerchantRefInputs == {NULL, "c1"}
LimitInputs == {-1, 1}
NotesInputs == {"text", "nonstring"}

(* ---- specification -------------------------------------------------------- *)
Init ==
  /\ loans = <<>>
  /\ kycDocs = <<>>
  /\ auditLogs = <<>>
  /\ clock = 0
  /\ users = <<>>
  /\ signups = [p \in SignupProcs |-> NoSignup]
  /\ awaiting = [p \in RequestProcs |-> NoAwait]
  /\ last = [req |-> BlankRequest, res |-> BlankResponse]

\* The loan ledger under sequential requests: every loan endpoint, called by
\* every user of the directory.
ApplyRequest ==
  \E cred \in Users, merchantId \in MerchantRefInputs, auditOk \in AuditHealthy :
    /\ apply(cred, "PERSONAL", MinLoanAmount, merchantId, auditOk)
    /\ Within(MaxLoans, MaxMutations)

GetStatusRequest ==
  \E cred \in Users, loanId \in LoanIdInputs : getStatus(cred, loanId)

ListLoansRequest ==
  \E cred \in Users, limit \in LimitInputs : listLoans(cred, NULL, NULL, limit)

ApproveRequest ==
  \E cred \in Users, loanId \in LoanIdInputs, auditOk \in AuditHealthy :
    /\ approve(cred, loanId, "text", auditOk)
    /\ Within(MaxLoans, MaxMutations)

RejectRequest ==
  \E cred \in Users, loanId \in LoanIdInputs, auditOk \in AuditHealthy :
    /\ reject(cred, loanId, "text", auditOk)
    /\ Within(MaxLoans, MaxMutations)

MerchantAnalyticsRequest ==
  \E cred \in Users : merchantAnalytics(cred, NULL)

Next ==
  \/ ApplyRequest
  \/ GetStatusRequest
  \/ ListLoansRequest
  \/ ApproveRequest
  \/ RejectRequest
  \/ MerchantAnalyticsRequest

Spec == Init /\ [][Next]_vars

\* The amount check of the application: applications of every user with
\* amounts on both sides of each limit and with a valid and an invalid type,
\* followed through a decision.
TypeInputs == {"PERSONAL", "GOLD"}
AmountInputs == {MinLoanAmount - 1, MinLoanAmount, MaxLoanAmount, MaxLoanAmount + 1}

ApplyAmountRequest ==
  \E cred \in Users, type \in TypeInputs, amount \in AmountInputs,
     auditOk \in AuditHealthy :
    /\ apply(cred, type, amount, NULL, auditOk)
    /\ Within(MaxLoans, MaxMutations)

ApproveAmountRequest ==
  \E loanId \in LoanIdInputs, auditOk \in AuditHealthy :
    /\ approve("b1", loanId, "text", auditOk)
    /\ Within(MaxLoans, MaxMutations)

NextAmount ==
  \/ ApplyAmountRequest
  \/ ApproveAmountRequest

SpecAmount == Init /\ [][NextAmount]_vars

\* The whole API under sequential requests: every loan and KYC endpoint,
\* called with the credential of a user of every role, without a credential
\* and with an expired one, with a body that passes validation and one that
\* does not.
WithinApi ==
  /\ Len(loans') <= ApiMaxLoans
  /\ Len(kycDocs') <= ApiMaxDocs
  /\ clock' <= ApiMaxMutations

ApiCredentials == {"c1", "m1", "b1"} \cup BadCredentials
ApiLoanIdInputs == 1..ApiMaxLoans
ApiDocIdInputs == 1..ApiMaxDocs
ApiAmountInputs == {MinLoanAmount - 1, MinLoanAmount}
ApiDocTypeInputs == {"ID_PROOF", "SELFIE"}
ApiContentTypeInputs == {"image/png", "text/plain"}
ApiKycStatusInputs == {"VERIFIED", "PENDING"}
ApiFileSize == 1024

ApiApply ==
  \E cred \in ApiCredentials, amount \in ApiAmountInputs, auditOk \in AuditHealthy :
    /\ apply(cred, "PERSONAL", amount, NULL, auditOk)
    /\ WithinApi

ApiGetStatus ==
  \E cred \in ApiCredentials, loanId \in ApiLoanIdInputs : getStatus(cred, loanId)

ApiListLoans ==
  \E cred \in ApiCredentials : listLoans(cred, NULL, NULL, -1)

ApiApprove ==
  \E cred \in ApiCredentials, loanId \in ApiLoanIdInputs, auditOk \in AuditHealthy :
    /\ approve(cred, loanId, "text", auditOk)
    /\ WithinApi

ApiReject ==
  \E cred \in ApiCredentials, loanId \in ApiLoanIdInputs, auditOk \in AuditHealthy :
    /\ reject(cred, loanId, "text", auditOk)
    /\ WithinApi

ApiMerchantAnalytics ==
  \E cred \in ApiCredentials : merchantAnalytics(cred, NULL)

ApiKycGenerateUploadUrl ==
  \E cred \in ApiCredentials, docType \in ApiDocTypeInputs :
    /\ kycGenerateUploadUrl(cred, docType)
    /\ WithinApi

ApiKycCompleteUpload ==
  \E cred \in ApiCredentials, kycDocId \in ApiDocIdInputs,
     contentType \in ApiContentTypeInputs, auditOk \in AuditHealthy :
    /\ kycCompleteUpload(cred, kycDocId, kycDocId, ApiFileSize, contentType, auditOk)
    /\ WithinApi

ApiKycGetStatus ==
  \E cred \in ApiCredentials : kycGetStatus(cred, NULL)

ApiKycGetRequired ==
  \E cred \in ApiCredentials : kycGetRequired(cred, NULL)

ApiKycGetPendingForReview ==
  \E cred \in ApiCredentials : kycGetPendingForReview(cred, -1)

ApiKycGetForReview ==
  \E cred \in ApiCredentials, kycDocId \in ApiDocIdInputs :
    kycGetForReview(cred, kycDocId)

ApiKycVerify ==
  \E cred \in ApiCredentials, kycDocId \in ApiDocIdInputs,
     status \in ApiKycStatusInputs, auditOk \in AuditHealthy :
    /\ kycVerify(cred, kycDocId, status, auditOk)
    /\ WithinApi

NextApi ==
  \/ ApiApply
  \/ ApiGetStatus
  \/ ApiListLoans
  \/ ApiApprove
  \/ ApiReject
  \/ ApiMerchantAnalytics
  \/ ApiKycGenerateUploadUrl
  \/ ApiKycCompleteUpload
  \/ ApiKycGetStatus
  \/ ApiKycGetRequired
  \/ ApiKycGetPendingForReview
  \/ ApiKycGetForReview
  \/ ApiKycVerify

SpecApi == Init /\ [][NextApi]_vars

\* Listing with filters: applications of a customer and a merchant of two
\* types, decisions of a banker, and lists asked by every user with and
\* without a status and a type filter.
ListStatusInputs == {NULL, "PENDING", "APPROVED"}
ListTypeInputs == {NULL, "PERSONAL"}

ApplyListRequest ==
  \E cred \in {"c1", "m1"}, type \in {"PERSONAL", "BUSINESS"}, auditOk \in AuditHealthy :
    /\ apply(cred, type, MinLoanAmount, NULL, auditOk)
    /\ Within(MaxLoans, MaxMutations)

ApproveListRequest ==
  \E loanId \in LoanIdInputs, auditOk \in AuditHealthy :
    /\ approve("b1", loanId, "text", auditOk)
    /\ Within(MaxLoans, MaxMutations)

ListFilteredRequest ==
  \E cred \in Users, status \in ListStatusInputs, type \in ListTypeInputs :
    listLoans(cred, status, type, -1)

NextList ==
  \/ ApplyListRequest
  \/ ApproveListRequest
  \/ ListFilteredRequest

SpecList == Init /\ [][NextList]_vars

\* Merchant analytics with filters: applications of a merchant with and
\* without a merchant reference and of a customer, decisions of a banker, and
\* the analytics asked with and without a status filter.
AnalyticsStatusInputs == {NULL, "PENDING", "APPROVED"}

ApplyAnalyticsRequest ==
  \E cred \in {"c1", "m1"}, merchantId \in MerchantRefInputs, auditOk \in AuditHealthy :
    /\ apply(cred, "PERSONAL", MinLoanAmount, merchantId, auditOk)
    /\ Within(MaxLoans, MaxMutations)

ApproveAnalyticsRequest ==
  \E loanId \in LoanIdInputs, auditOk \in AuditHealthy :
    /\ approve("b1", loanId, "text", auditOk)
    /\ Within(MaxLoans, MaxMutations)

RejectAnalyticsRequest ==
  \E loanId \in LoanIdInputs, auditOk \in AuditHealthy :
    /\ reject("b1", loanId, "text", auditOk)
    /\ Within(MaxLoans, MaxMutations)

AnalyticsFilteredRequest ==
  \E cred \in {"c1", "m1"}, status \in AnalyticsStatusInputs :
    merchantAnalytics(cred, status)

NextAnalytics ==
  \/ ApplyAnalyticsRequest
  \/ ApproveAnalyticsRequest
  \/ RejectAnalyticsRequest
  \/ AnalyticsFilteredRequest

SpecAnalytics == Init /\ [][NextAnalytics]_vars

\* The KYC ledger under sequential requests: registrations by a customer,
\* finalizations by the customer and by a merchant with a size on either side
\* of the ceiling and a content type inside and outside the allow-list, and
\* decisions of two bankers.
WithinKyc ==
  /\ Len(kycDocs') <= KycMaxDocs
  /\ clock' <= KycMaxMutations

KycDocIdInputs == 1..KycMaxDocs
KycFileSizeInputs == {KycMaxFileSize, KycMaxFileSize + 1}
KycContentTypeInputs == {"image/png", "text/plain"}

KycGenerateUploadUrlRequest ==
  /\ kycGenerateUploadUrl("c1", "ID_PROOF")
  /\ WithinKyc

KycCompleteUploadRequest ==
  \E cred \in {"c1", "m1"}, kycDocId \in KycDocIdInputs,
     fileSize \in KycFileSizeInputs, contentType \in KycContentTypeInputs,
     auditOk \in AuditHealthy :
    /\ kycCompleteUpload(cred, kycDocId, kycDocId, fileSize, contentType, auditOk)
    /\ WithinKyc

KycVerifyRequest ==
  \E cred \in {"b1", "b2"}, kycDocId \in KycDocIdInputs,
     status \in kycValidStatuses, auditOk \in AuditHealthy :
    /\ kycVerify(cred, kycDocId, status, auditOk)
    /\ WithinKyc

NextKyc ==
  \/ KycGenerateUploadUrlRequest
  \/ KycCompleteUploadRequest
  \/ KycVerifyRequest

SpecKyc == Init /\ [][NextKyc]_vars

\* The KYC service called directly, as by the controllers but with no gate
\* and no body validation in front of it. The answer is the error thrown
\* (its status and message as thrown, before any error handler) or the
\* return.
Thrown(err) ==
  [BlankResponse EXCEPT !.statusCode = err.status, !.message = err.message]

Returned == [BlankResponse EXCEPT !.message = "returned"]

\* kycService.generateUploadUrl(userId, docType)
serviceGenerateUploadUrl(userId, docType) ==
  LET req == [BlankRequest EXCEPT !.op = "KYCService.generateUploadUrl",
                                  !.docType = docType]
  IN IF docType \notin DocTypes
       THEN Answer(req, Thrown(Err(400, "Invalid document type")))
     ELSE
       LET now == clock + 1
           doc == createKYCDocument(kycDocs, userId, docType, "UPLOADING",
                                    newPublicId(kycDocs), now)
       IN /\ kycDocs' = Append(kycDocs, doc)
          /\ clock' = now
          /\ UNCHANGED <<loans, auditLogs, users, signups, awaiting>>
          /\ last' = [req |-> req, res |-> [Returned EXCEPT !.kycDocId = doc.id]]

\* kycService.completeUpload(kycDocId, publicId, fileSize, contentType)
serviceCompleteUpload(kycDocId, publicId, fileSize, contentType, auditOk) ==
  LET req == [BlankRequest EXCEPT !.op = "KYCService.completeUpload",
                                  !.kycDocId = kycDocId, !.publicId = publicId,
                                  !.fileSize = fileSize, !.contentType = contentType]
      err == completeUploadCheck(fileSize, contentType)
  IN IF err.status # 0 THEN Answer(req, Thrown(err))
     ELSE IF kycDocId \notin 1..Len(kycDocs) THEN Answer(req, Thrown(RecordNotFound))
     ELSE
       LET now == clock + 1 IN
       /\ kycDocs' = [kycDocs EXCEPT ![kycDocId] = completeUploadRow(kycDocs[kycDocId], publicId)]
       /\ auditLogs' = createKYCAuditLog(auditLogs, "DOCUMENT_UPLOADED", NULL, now, auditOk)
       /\ clock' = now
       /\ UNCHANGED <<loans, users, signups, awaiting>>
       /\ last' = [req |-> req, res |-> [Returned EXCEPT !.kycDocId = kycDocId]]

\* kycService.verifyKYCDocument(kycDocId, status, bankerId)
serviceVerifyKYCDocument(kycDocId, status, bankerId, auditOk) ==
  LET req == [BlankRequest EXCEPT !.op = "KYCService.verifyKYCDocument",
                                  !.kycDocId = kycDocId, !.status = status]
  IN IF status \notin kycValidStatuses
       THEN Answer(req, Thrown(Err(400, "Status must be VERIFIED or REJECTED")))
     ELSE IF kycDocId \notin 1..Len(kycDocs) THEN Answer(req, Thrown(RecordNotFound))
     ELSE
       LET now == clock + 1 IN
       /\ kycDocs' = [kycDocs EXCEPT ![kycDocId] =
                        verifyKYCDocumentRow(kycDocs[kycDocId], status, bankerId)]
       /\ auditLogs' = createKYCAuditLog(auditLogs, kycVerifyAction(status),
                                         bankerId, now, auditOk)
       /\ clock' = now
       /\ UNCHANGED <<loans, users, signups, awaiting>>
       /\ last' = [req |-> req, res |-> [Returned EXCEPT !.kycDocId = kycDocId]]

(* ---- UserService --------------------------------------------------------- *)
\* bcrypt.hash(password, saltRounds): a digest of the password, and
\* bcrypt.compare(password, hash).
bcryptHash(password) == [bcrypt |-> password]

bcryptCompare(password, passwordHash) == passwordHash = bcryptHash(password)

uniqueTargetEmailOnly(table, data) ==
  IF \E i \in 1..Len(table) : table[i].email = data.email THEN "email" ELSE NULL

\* The unique constraints of the User table on email and on phone: the
\* meta.target of the P2002 that prisma.user.create or update throws for
\* these data, NULL when it throws none; data.id is the row the data are
\* written to.
uniqueTarget(table, data) ==
  IF \E i \in 1..Len(table) : i # data.id /\ table[i].email = data.email THEN "email"
  ELSE IF \E i \in 1..Len(table) : i # data.id /\ table[i].phone = data.phone THEN "phone"
  ELSE NULL

\* createUser: the row prisma.user.create inserts.
createUserRow(table, userData) ==
  [id |-> Len(table) + 1, name |-> userData.name, email |-> userData.email,
   phone |-> userData.phone, passwordHash |-> bcryptHash(userData.password),
   role |-> userData.role]

createUserConflictBadRequest(field) == Err(400, "User already exists")

\* createUser, catch: the error thrown for a P2002 on this field.
createUserConflict(field) ==
  Err(409, IF field = "email" THEN "Email already exists"
           ELSE IF field = "phone" THEN "Phone number already exists"
           ELSE "User already exists")

\* findUserByEmail: the id of the user with this email, 0 for null.
findUserByEmail(table, email) ==
  IF \E i \in 1..Len(table) : table[i].email = email
    THEN CHOOSE i \in 1..Len(table) : table[i].email = email
    ELSE 0

validatePasswordEmailOnly(table, email, password) == findUserByEmail(table, email)

\* validatePassword: the id of the user, 0 for null.
validatePassword(table, email, password) ==
  LET user == findUserByEmail(table, email)
  IN IF user = 0 THEN 0
     ELSE IF bcryptCompare(password, table[user].passwordHash) THEN user
     ELSE 0

allowedUpdatesWithRole == {"name", "phone", "role"}

\* updateUserProfile: allowedUpdates.
allowedUpdates == {"name", "phone"}

\* updateUserProfile: updates, the keys of updateData that are allowed.
updatesOf(updateData) == {key \in allowedUpdates : updateData[key] # NULL}

\* updateUserProfile: the row after prisma.user.update({ data: updates }).
updateUserRow(row, updateData) ==
  [key \in DOMAIN row |->
     IF key \in updatesOf(updateData) THEN updateData[key] ELSE row[key]]

\* A P2002 that reaches the caller as Prisma threw it.
UniqueConstraintFailed == Err(0, "Unique constraint failed")

(* ---- AuthController ------------------------------------------------------ *)
\* Joi schemas signup and login: the well-formed values of the fields.
WellFormedEmails == {"a@x.in", "b@x.in"}
WellFormedPhones == {"9000000001", "9000000002"}
WellFormedPasswords == {"password1", "password2"}

validateSignup(body) ==
  /\ body.name # NULL
  /\ body.email \in WellFormedEmails
  /\ body.phone \in WellFormedPhones
  /\ body.password \in WellFormedPasswords
  /\ body.role \in Roles

validateLogin(body) ==
  /\ body.email \in WellFormedEmails
  /\ body.password \in WellFormedPasswords

\* POST /auth/signup, up to the await of createUser: validation and the
\* check that no user has the email. A body that passes is in flight.
signupCheck(proc, name, email, phone, password, role) ==
  LET req == [BlankRequest EXCEPT !.op = "signup", !.proc = proc, !.name = name,
                                  !.email = email, !.phone = phone,
                                  !.password = password, !.role = role]
  IN /\ ~signups[proc].pending
     /\ IF ~validateSignup(req) THEN Fail(req, ValidationFailed)
        ELSE IF findUserByEmail(users, email) # 0
          THEN Fail(req, Err(409, "User already exists"))
        ELSE /\ signups' = [signups EXCEPT ![proc] =
                              [pending |-> TRUE, name |-> name, email |-> email,
                               phone |-> phone, password |-> password, role |-> role]]
             /\ UNCHANGED <<loans, kycDocs, auditLogs, clock, users, last, awaiting>>

\* POST /auth/signup, from createUser to the response.
signupCreate(proc) ==
  LET userData == signups[proc]
      req == [BlankRequest EXCEPT !.op = "signup", !.proc = proc,
                                  !.name = userData.name, !.email = userData.email,
                                  !.phone = userData.phone,
                                  !.password = userData.password,
                                  !.role = userData.role]
      user   == createUserRow(users, userData)
      target == uniqueTarget(users, user)
  IN /\ userData.pending
     /\ signups' = [signups EXCEPT ![proc] = NoSignup]
     /\ UNCHANGED <<loans, kycDocs, auditLogs, clock, awaiting>>
     /\ IF target # NULL
          THEN /\ users' = users
               /\ last' = [req |-> req, res |-> ErrorResponse(createUserConflict(target))]
          ELSE /\ users' = Append(users, user)
               /\ last' = [req |-> req,
                           res |-> [Success(201, "User registered successfully")
                                      EXCEPT !.userId = user.id, !.token = user.id]]

\* POST /auth/login
login(email, password) ==
  LET req  == [BlankRequest EXCEPT !.op = "login", !.email = email,
                                   !.password = password]
      user == validatePassword(users, email, password)
  IN IF ~validateLogin(req) THEN Fail(req, ValidationFailed)
     ELSE IF user = 0 THEN Fail(req, Err(401, "Invalid email or password"))
     ELSE Answer(req, [Success(200, "Login successful")
                         EXCEPT !.userId = user, !.token = user])

\* userService.updateUserProfile(userId, updateData)
updateUserProfile(userId, updateData) ==
  LET req == [BlankRequest EXCEPT !.op = "UserService.updateUserProfile",
                                  !.userId = userId, !.updateData = updateData]
  IN IF updatesOf(updateData) = {}
       THEN Answer(req, [Returned EXCEPT !.message = "No valid fields to update"])
     ELSE IF userId \notin 1..Len(users) THEN Answer(req, Thrown(RecordNotFound))
     ELSE
       LET user == updateUserRow(users[userId], updateData) IN
       IF uniqueTarget(users, user) # NULL
         THEN Answer(req, Thrown(UniqueConstraintFailed))
         ELSE /\ users' = [users EXCEPT ![userId] = user]
              /\ last' = [req |-> req, res |-> [Returned EXCEPT !.userId = userId]]
              /\ UNCHANGED <<loans, kycDocs, auditLogs, clock, signups, awaiting>>

ServiceFileSizeInputs == {1, KycMaxFileSize, KycMaxFileSize + 1}

ServiceGenerateUploadUrl ==
  \E userId \in {"c1", "m1"} :
    /\ serviceGenerateUploadUrl(userId, "ID_PROOF")
    /\ WithinKyc

ServiceCompleteUpload ==
  \E kycDocId \in KycDocIdInputs, fileSize \in ServiceFileSizeInputs,
     contentType \in KycContentTypeInputs, auditOk \in AuditHealthy :
    /\ serviceCompleteUpload(kycDocId, kycDocId, fileSize, contentType, auditOk)
    /\ WithinKyc

ServiceVerifyKYCDocument ==
  \E kycDocId \in KycDocIdInputs, status \in kycValidStatuses, auditOk \in AuditHealthy :
    /\ serviceVerifyKYCDocument(kycDocId, status, "b1", auditOk)
    /\ WithinKyc

NextKycService ==
  \/ ServiceGenerateUploadUrl
  \/ ServiceCompleteUpload
  \/ ServiceVerifyKYCDocument

SpecKycService == Init /\ [][NextKycService]_vars

\* The required documents and the KYC completion as functions of their
\* arguments: getRequiredDocuments applied to every role and loan type, and
\* calculateKYCCompletion applied to its result and to every list of
\* documents of the four types, each PENDING, VERIFIED or REJECTED.
CompletionStatusInputs == {"PENDING", "VERIFIED", "REJECTED"}
CompletionLoanTypeInputs == LoanTypes \cup {NULL}

DocumentLists ==
  UNION {[1..n -> [type : DocTypes, status : CompletionStatusInputs]] :
           n \in 0..CompletionMaxDocs}

\* The call received: the arguments, not answered yet.
InitCompletion ==
  /\ loans = <<>>
  /\ kycDocs = <<>>
  /\ auditLogs = <<>>
  /\ clock = 0
  /\ users = <<>>
  /\ signups = [p \in SignupProcs |-> NoSignup]
  /\ awaiting = [p \in RequestProcs |-> NoAwait]
  /\ \E documents \in DocumentLists, userRole \in Roles,
        loanType \in CompletionLoanTypeInputs :
       last = [req |-> [BlankRequest EXCEPT !.op = "calculateKYCCompletion",
                                            !.documents = documents,
                                            !.role = userRole,
                                            !.type = loanType],
               res |-> BlankResponse]

\* KYCController.calculateKYCCompletion(documents,
\*   kycService.getRequiredDocuments(userRole, loanType))
completionOf(documents, userRole, loanType) ==
  LET requiredDocs == getRequiredDocuments(userRole, loanType)
  IN Answer(last.req,
            [Returned EXCEPT
               !.requiredDocuments = requiredDocs,
               !.completion =
                 calculateKYCCompletion(documents,
                                        [k \in 1..Len(documents) |-> k],
                                        requiredDocs)])

CompletionOf ==
  /\ last.res = BlankResponse
  /\ completionOf(last.req.documents, last.req.role, last.req.type)

NextCompletion == CompletionOf

SpecCompletion == InitCompletion /\ [][NextCompletion]_vars

\* The audit log failing: every operation that writes an audit entry, with
\* the insert into AuditLog succeeding or throwing.
AuditFaulty == {TRUE, FALSE}

WithinFault ==
  /\ Len(loans') <= MaxLoans
  /\ Len(kycDocs') <= KycMaxDocs
  /\ clock' <= MaxMutations

FaultApply ==
  \E auditOk \in AuditFaulty :
    /\ apply("c1", "PERSONAL", MinLoanAmount, NULL, auditOk)
    /\ WithinFault

FaultApprove ==
  \E loanId \in LoanIdInputs, auditOk \in AuditFaulty :
    /\ approve("b1", loanId, "text", auditOk)
    /\ WithinFault

FaultReject ==
  \E loanId \in LoanIdInputs, auditOk \in AuditFaulty :
    /\ reject("b1", loanId, "text", auditOk)
    /\ WithinFault

FaultKycGenerateUploadUrl ==
  /\ kycGenerateUploadUrl("c1", "ID_PROOF")
  /\ WithinFault

FaultKycCompleteUpload ==
  \E kycDocId \in KycDocIdInputs, auditOk \in AuditFaulty :
    /\ kycCompleteUpload("c1", kycDocId, kycDocId, ApiFileSize, "image/png", auditOk)
    /\ WithinFault

FaultKycVerify ==
  \E kycDocId \in KycDocIdInputs, status \in kycValidStatuses, auditOk \in AuditFaulty :
    /\ kycVerify("b1", kycDocId, status, auditOk)
    /\ WithinFault

NextAuditFault ==
  \/ FaultApply
  \/ FaultApprove
  \/ FaultReject
  \/ FaultKycGenerateUploadUrl
  \/ FaultKycCompleteUpload
  \/ FaultKycVerify

SpecAuditFault == Init /\ [][NextAuditFault]_vars

\* The user directory: signups that can overlap (two in flight, each checked
\* and then created), logins, and profile updates with allowed and other
\* keys.
SignupPasswordInputs == {"password1", "short"}
LoginPasswordInputs == {"password1", "password2"}
UserIdInputs == 1..MaxUsers

UpdateDataInputs ==
  {[NoUpdate EXCEPT !.name = "n2"],
   [NoUpdate EXCEPT !.phone = "9000000002"],
   [NoUpdate EXCEPT !.role = "BANKER", !.email = "b@x.in",
                    !.passwordHash = "digest", !.id = "u9"],
   [NoUpdate EXCEPT !.name = "n2", !.role = "BANKER", !.email = "b@x.in"]}

SignupCheck ==
  \E proc \in SignupProcs, email \in WellFormedEmails, phone \in WellFormedPhones,
     password \in SignupPasswordInputs :
    signupCheck(proc, "n1", email, phone, password, "CUSTOMER")

SignupCreate ==
  \E proc \in SignupProcs :
    /\ signupCreate(proc)
    /\ Len(users') <= MaxUsers

Login ==
  \E email \in WellFormedEmails, password \in LoginPasswordInputs :
    login(email, password)

UpdateUserProfile ==
  \E userId \in UserIdInputs, updateData \in UpdateDataInputs :
    updateUserProfile(userId, updateData)

NextUsers ==
  \/ SignupCheck
  \/ SignupCreate
  \/ Login
  \/ UpdateUserProfile

SpecUsers == Init /\ [][NextUsers]_vars

\* The reads beside the KYC ledger: the requests of SpecKyc, a banker reading
\* the review queue with no limit and with a limit of one, and the customer
\* reading the KYC status with no filter and with each status as filter.
ReviewLimitInputs == {-1, 1}
StatusFilterInputs == {NULL, "PENDING", "VERIFIED", "REJECTED"}

KycGetPendingForReviewRequest ==
  \E limit \in ReviewLimitInputs : kycGetPendingForReview("b1", limit)

KycGetStatusRequest ==
  \E status \in StatusFilterInputs : kycGetStatus("c1", status)

NextReview ==
  \/ NextKyc
  \/ KycGetPendingForReviewRequest
  \/ KycGetStatusRequest

SpecReview == Init /\ [][NextReview]_vars


(* ---- requests that overlap ------------------------------------------------ *)
\* A handler runs up to its first await and other requests run before it goes
\* on. createLoan, updateLoanStatus and verifyKYCDocument await the primary
\* write and then await the audit insert: each is two steps, the request's
\* checks with the primary write, then the audit insert with the response.
Await(proc, req, res, loanId, action, actorId) ==
  awaiting' = [awaiting EXCEPT ![proc] =
                 [pending |-> TRUE, req |-> req, res |-> res, loanId |-> loanId,
                  action |-> action, actorId |-> actorId]]

\* POST /loan/apply up to the await of createAuditLog.
applyCreate(proc, cred, type, amount, merchantId) ==
  LET req  == [BlankRequest EXCEPT !.op = "apply", !.cred = cred, !.type = type,
                                   !.amount = amount, !.merchantId = merchantId,
                                   !.proc = proc]
      auth == authenticate(cred)
      user == auth.user
  IN /\ ~awaiting[proc].pending
     /\ IF ~auth.ok THEN Fail(req, auth.err)
        ELSE IF user.role \notin ApplicantRoles
          THEN Fail(req, Err(403, "Only customers and merchants can apply for loans"))
        ELSE IF ~validateLoanApply(req) THEN Fail(req, ValidationFailed)
        ELSE
          LET now  == clock + 1
              loan == createLoanRow(
                        loans,
                        [type |-> type, amount |-> amount,
                         merchantId |-> finalMerchantId(user, merchantId)],
                        user.userId, now)
          IN /\ loans' = Append(loans, loan)
             /\ clock' = now
             /\ Await(proc, req,
                      [Success(201, "Loan application submitted successfully")
                         EXCEPT !.loanId = loan.id],
                      loan.id, "LOAN_CREATED", user.userId)
             /\ UNCHANGED <<kycDocs, auditLogs, users, signups, last>>

decideUpdateAuditFirst(proc, req, user, status) ==
  IF status \notin validStatuses THEN Fail(req, Err(400, "Invalid status transition"))
  ELSE IF req.loanId \notin 1..Len(loans)
    THEN /\ auditLogs' = createAuditLog(auditLogs, req.loanId, auditAction(status),
                                        user.userId, clock, TRUE)
         /\ last' = [req |-> req, res |-> ErrorResponse(RecordNotFound)]
         /\ UNCHANGED <<loans, kycDocs, clock, users, signups, awaiting>>
  ELSE
    /\ loans' = [loans EXCEPT ![req.loanId] =
                   updateLoanRow(loans[req.loanId], status, user.userId, clock + 1)]
    /\ clock' = clock + 1
    /\ Await(proc, req, [Success(200, "Loan decided") EXCEPT !.loanId = req.loanId],
             req.loanId, auditAction(status), user.userId)
    /\ UNCHANGED <<kycDocs, auditLogs, users, signups, last>>

\* updateLoanStatus up to the await of createAuditLog.
decideUpdate(proc, req, user, status) ==
  IF status \notin validStatuses THEN Fail(req, Err(400, "Invalid status transition"))
  ELSE IF req.loanId \notin 1..Len(loans) THEN Fail(req, RecordNotFound)
  ELSE
    LET now == clock + 1 IN
    /\ loans' = [loans EXCEPT ![req.loanId] =
                   updateLoanRow(loans[req.loanId], status, user.userId, now)]
    /\ clock' = now
    /\ Await(proc, req,
             IF req.notes = "nonstring"
               THEN ErrorResponse(NotAFunction)
               ELSE [Success(200, "Loan decided") EXCEPT !.loanId = req.loanId],
             req.loanId, auditAction(status), user.userId)
    /\ UNCHANGED <<kycDocs, auditLogs, users, signups, last>>

\* POST /loan/:id/approve up to the await of createAuditLog.
approveUpdate(proc, cred, loanId, notes) ==
  LET req  == [BlankRequest EXCEPT !.op = "approve", !.cred = cred,
                                   !.loanId = loanId, !.notes = notes,
                                   !.proc = proc]
      auth == authenticate(cred)
  IN /\ ~awaiting[proc].pending
     /\ IF ~auth.ok THEN Fail(req, auth.err)
        ELSE IF ~authorize({"BANKER"}, auth.user.role)
          THEN Fail(req, InsufficientPermissions)
        ELSE IF auth.user.role # "BANKER"
          THEN Fail(req, Err(403, "Only bankers can approve loans"))
        ELSE decideUpdate(proc, req, auth.user, "APPROVED")

\* POST /loan/:id/reject up to the await of createAuditLog.
rejectUpdate(proc, cred, loanId, notes) ==
  LET req  == [BlankRequest EXCEPT !.op = "reject", !.cred = cred,
                                   !.loanId = loanId, !.notes = notes,
                                   !.proc = proc]
      auth == authenticate(cred)
  IN /\ ~awaiting[proc].pending
     /\ IF ~auth.ok THEN Fail(req, auth.err)
        ELSE IF ~authorize({"BANKER"}, auth.user.role)
          THEN Fail(req, InsufficientPermissions)
        ELSE IF auth.user.role # "BANKER"
          THEN Fail(req, Err(403, "Only bankers can reject loans"))
        ELSE decideUpdate(proc, req, auth.user, "REJECTED")

\* POST /kyc/:kycDocId/verify up to the await of createKYCAuditLog.
kycVerifyUpdate(proc, cred, kycDocId, status) ==
  LET req  == [BlankRequest EXCEPT !.op = "kycVerify", !.cred = cred,
                                   !.kycDocId = kycDocId, !.status = status,
                                   !.proc = proc]
      auth == authenticate(cred)
  IN /\ ~awaiting[proc].pending
     /\ IF ~auth.ok THEN Fail(req, auth.err)
        ELSE IF ~authorize({"BANKER"}, auth.user.role)
          THEN Fail(req, InsufficientPermissions)
        ELSE IF auth.user.role # "BANKER"
          THEN Fail(req, Err(403, "Only bankers can verify KYC documents"))
        ELSE IF ~validateKycVerify(req) THEN Fail(req, ValidationFailed)
        ELSE IF status \notin kycValidStatuses
          THEN Fail(req, Err(400, "Status must be VERIFIED or REJECTED"))
        ELSE IF kycDocId \notin 1..Len(kycDocs) THEN Fail(req, RecordNotFound)
        ELSE
          /\ kycDocs' = [kycDocs EXCEPT ![kycDocId] =
                           verifyKYCDocumentRow(kycDocs[kycDocId], status,
                                                auth.user.userId)]
          /\ clock' = clock + 1
          /\ Await(proc, req,
                   [Success(200, IF status = "VERIFIED"
                                   THEN "Document verified successfully"
                                   ELSE "Document rejected")
                      EXCEPT !.kycDocId = kycDocId],
                   0, kycAuditAction(kycVerifyAction(status)), auth.user.userId)
          /\ UNCHANGED <<loans, auditLogs, users, signups, last>>

\* The rest of the handler: await createAuditLog (createKYCAuditLog writes
\* the same row with loanId null), then the response.
auditWrite(proc, auditOk) ==
  LET a == awaiting[proc]
  IN /\ a.pending
     /\ auditLogs' = createAuditLog(auditLogs, a.loanId, a.action, a.actorId,
                                    clock, auditOk)
     /\ last' = [req |-> a.req, res |-> auditLogCaught(a.res, auditOk)]
     /\ awaiting' = [awaiting EXCEPT ![proc] = NoAwait]
     /\ UNCHANGED <<loans, kycDocs, clock, users, signups>>

\* Two applicants' and two bankers' requests in two handlers at once, on
\* loans and documents that exist and on ones that do not.
WithinOverlap ==
  /\ Len(loans') <= OverlapMaxLoans
  /\ Len(kycDocs') <= OverlapMaxDocs
  /\ clock' <= OverlapMaxMutations

OverlapLoanIdInputs == 1..OverlapMaxLoans

ApplyCreate ==
  \E proc \in RequestProcs :
    /\ applyCreate(proc, "c1", "PERSONAL", MinLoanAmount, NULL)
    /\ WithinOverlap

ApproveUpdate ==
  \E proc \in RequestProcs, cred \in {"b1", "b2"}, loanId \in OverlapLoanIdInputs :
    /\ approveUpdate(proc, cred, loanId, "text")
    /\ WithinOverlap

RejectUpdate ==
  \E proc \in RequestProcs, cred \in {"b1", "b2"}, loanId \in OverlapLoanIdInputs :
    /\ rejectUpdate(proc, cred, loanId, "text")
    /\ WithinOverlap

KycRegister ==
  /\ kycGenerateUploadUrl("c1", "ID_PROOF")
  /\ WithinOverlap

KycVerifyUpdate ==
  \E proc \in RequestProcs, status \in kycValidStatuses :
    /\ kycVerifyUpdate(proc, "b1", 1, status)
    /\ WithinOverlap

AuditWrite ==
  \E proc \in RequestProcs, auditOk \in AuditHealthy : auditWrite(proc, auditOk)

NextOverlap ==
  \/ ApplyCreate
  \/ ApproveUpdate
  \/ RejectUpdate
  \/ KycRegister
  \/ KycVerifyUpdate
  \/ AuditWrite

SpecOverlap == Init /\ [][NextOverlap]_vars


\* Decisions beside the rest of the store: a customer's applications and KYC
\* registration, and approvals and rejections by two bankers.
WithinDecide ==
  /\ Len(loans') <= MaxLoans
  /\ Len(kycDocs') <= ApiMaxDocs
  /\ clock' <= DecideMaxMutations

DecideApply ==
  /\ apply("c1", "PERSONAL", MinLoanAmount, NULL, TRUE)
  /\ WithinDecide

DecideKycRegister ==
  /\ kycGenerateUploadUrl("c1", "ID_PROOF")
  /\ WithinDecide

DecideApprove ==
  \E cred \in {"b1", "b2"}, loanId \in LoanIdInputs :
    /\ approve(cred, loanId, "text", TRUE)
    /\ WithinDecide

DecideReject ==
  \E cred \in {"b1", "b2"}, loanId \in LoanIdInputs :
    /\ reject(cred, loanId, "text", TRUE)
    /\ WithinDecide

NextDecide ==
  \/ DecideApply
  \/ DecideKycRegister
  \/ DecideApprove
  \/ DecideReject

SpecDecide == Init /\ [][NextDecide]_vars


(* ======================================================================== *)
(* Properties                                                               *)
(* ======================================================================== *)
LoanIds == 1..Len(loans)

Decided == {"APPROVED", "REJECTED"}

\* The last request was made with a valid credential of a user of this role.
CallerHasRole(role) == last.req.cred \in Users /\ UserRole(last.req.cred) = role

\* The positions of the loan's entries in the AuditLog table.
AuditEntriesOf(loanId) == {j \in 1..Len(auditLogs) : auditLogs[j].loanId = loanId}

\* The decide request of this step, when the step is one made by a banker on
\* an existing loan.
BankerDecides(op) ==
  /\ last'.req.op = op
  /\ last'.req.cred \in Users
  /\ UserRole(last'.req.cred) = "BANKER"
  /\ last'.req.loanId \in LoanIds

\* C1: a loan's status is terminal once APPROVED or REJECTED: a status only
\* changes from PENDING to APPROVED or REJECTED, and an approve or reject of a
\* loan that is no longer PENDING changes neither the loans nor the audit log.
C1_StatusTerminal ==
  [][/\ \A i \in LoanIds :
          loans'[i].status # loans[i].status
            => loans[i].status = "PENDING" /\ loans'[i].status \in Decided
     /\ \A op \in {"approve", "reject"} :
          (BankerDecides(op) /\ loans[last'.req.loanId].status # "PENDING")
            => loans' = loans /\ auditLogs' = auditLogs]_vars

\* C2: a decided loan carries the id of a BANKER as bankerId, a PENDING loan
\* has no bankerId, and no request of a CUSTOMER or MERCHANT changes the
\* status or the bankerId of a loan.
C2_Decided ==
  \A i \in LoanIds :
    /\ loans[i].status \in Decided
         => loans[i].bankerId \in Users /\ UserRole(loans[i].bankerId) = "BANKER"
    /\ loans[i].status = "PENDING" => loans[i].bankerId = NULL

C2_OnlyBankerDecides ==
  /\ []C2_Decided
  /\ [][(last'.req.cred \in Users /\ UserRole(last'.req.cred) \in {"CUSTOMER", "MERCHANT"})
          => \A i \in LoanIds : /\ loans'[i].status = loans[i].status
                                /\ loans'[i].bankerId = loans[i].bankerId]_vars

\* C2 witness: a customer's request arrives while a loan is decided.
C2_Witness ==
  /\ CallerHasRole("CUSTOMER")
  /\ last.req.op \in {"approve", "reject"}
  /\ last.req.loanId \in LoanIds
  /\ \E i \in LoanIds : loans[i].status \in Decided
  /\ \E i \in LoanIds : loans[i].status = "PENDING"

\* C3: bankerId is set exactly once: once a loan has a bankerId no later
\* request changes it.
C3_BankerSetOnce ==
  [][\A i \in LoanIds :
       loans[i].bankerId # NULL => loans'[i].bankerId = loans[i].bankerId]_vars

\* C4: an approve of a PENDING loan by a banker yields status APPROVED, the
\* banker as bankerId and a LOAN_APPROVED audit entry of the loan; a reject of
\* an already APPROVED loan succeeds too, overwrites the status with REJECTED
\* and appends a LOAN_REJECTED entry.
DecidedAs(status, action) ==
  LET id == last'.req.loanId IN
  /\ last'.res.statusCode = 200
  /\ loans'[id].status = status
  /\ loans'[id].bankerId = last'.req.cred
  /\ Len(auditLogs') = Len(auditLogs) + 1
  /\ SubSeq(auditLogs', 1, Len(auditLogs)) = auditLogs
  /\ auditLogs'[Len(auditLogs')].loanId = id
  /\ auditLogs'[Len(auditLogs')].action = action
  /\ auditLogs'[Len(auditLogs')].actorId = last'.req.cred

C5_BankerReadsAnyLoan ==
  (last.req.op = "getStatus" /\ last.req.cred \in Users /\ last.req.loanId \in LoanIds)
    => LET loan == loans[last.req.loanId] IN
       /\ (/\ UserRole(last.req.cred) = "CUSTOMER"
           /\ loan.applicantId # last.req.cred
           /\ loan.merchantId # last.req.cred) => last.res.statusCode = 403
       /\ UserRole(last.req.cred) = "BANKER" => last.res.statusCode = 200

\* C7: a successful application of a CUSTOMER produces a PENDING loan of the
\* caller with no banker and no merchant, whether or not the request names a
\* merchant, and exactly one audit entry of that loan: LOAN_CREATED by the
\* caller.
JustApplied(role) ==
  /\ last.req.op = "apply"
  /\ last.res.statusCode = 201
  /\ CallerHasRole(role)

\* The endpoints of the loan and KYC routers.
GatedOps ==
  {"apply", "getStatus", "listLoans", "approve", "reject", "merchantAnalytics",
   "kycGenerateUploadUrl", "kycCompleteUpload", "kycGetStatus", "kycGetRequired",
   "kycGetPendingForReview", "kycGetForReview", "kycVerify"}

\* The roles an endpoint is restricted to; every role where it is not.
AllowList(op) ==
  CASE op \in {"apply", "kycGenerateUploadUrl", "kycCompleteUpload"} ->
         {"CUSTOMER", "MERCHANT"}
    [] op \in {"approve", "reject", "kycGetPendingForReview", "kycGetForReview",
               "kycVerify"} -> {"BANKER"}
    [] op = "merchantAnalytics" -> {"MERCHANT"}
    [] OTHER -> {"CUSTOMER", "MERCHANT", "BANKER"}

\* The request did not pass its gate: it carried no valid credential, or the
\* credential of a user whose role is outside the endpoint's allow-list.
Unauthenticated(req) == req.op \in GatedOps /\ req.cred \in BadCredentials

Forbidden(req) ==
  /\ req.op \in GatedOps
  /\ req.cred \in Users
  /\ UserRole(req.cred) \notin AllowList(req.op)

\* C6: no loan or KYC operation runs without passing its gate. A request to
\* any loan or KYC endpoint without a valid credential is answered 401; a
\* request to a role-restricted endpoint by a user whose role is outside the
\* allow-list is answered 403, whatever its body and whatever the store
\* holds; and in both cases the loans, the KYC documents and the audit log
\* are left unchanged.
C6_GatesFirst ==
  /\ [](/\ Unauthenticated(last.req) => last.res.statusCode = 401
        /\ Forbidden(last.req) => last.res.statusCode = 403)
  /\ [][Unauthenticated(last'.req) \/ Forbidden(last'.req)
          => UNCHANGED <<loans, kycDocs, auditLogs, awaiting>>]_vars

\* A customer asks to verify an existing, uploaded document with a status
\* the validation would refuse, and is answered 403.
C6_Witness ==
  /\ last.req.op = "kycVerify"
  /\ last.req.cred = "c1"
  /\ last.req.status = "PENDING"
  /\ last.req.kycDocId \in 1..Len(kycDocs)
  /\ kycDocs[last.req.kycDocId].status = "PENDING"
  /\ last.res.statusCode = 403

C8_MerchantApplication ==
  JustApplied("MERCHANT") =>
    /\ last.res.loanId \in LoanIds
    /\ LET loan == loans[last.res.loanId] IN
       /\ loan.applicantId = last.req.cred
       /\ last.req.merchantId # NULL => loan.merchantId = last.req.cred
       /\ last.req.merchantId = NULL => loan.merchantId = NULL

\* C8 witness: the merchant has applied with a reference to another user.
C8_Witness ==
  /\ JustApplied("MERCHANT")
  /\ last.req.merchantId = "c1"
  /\ loans[last.res.loanId].merchantId = "m1"

\* C9: an application is accepted iff its amount lies in [1000, 5000000]; an
\* amount outside is answered with a validation error and creates neither a
\* loan nor an audit entry, so every loan of the store has an amount in range.
AmountInRange(amount) == 1000 <= amount /\ amount <= 5000000

OtherwiseValidApplication(req) ==
  /\ req.op = "apply"
  /\ req.cred \in Users
  /\ UserRole(req.cred) \in {"CUSTOMER", "MERCHANT"}
  /\ req.type \in LoanTypes

C9_Accepted ==
  /\ \A i \in LoanIds : AmountInRange(loans[i].amount)
  /\ OtherwiseValidApplication(last.req)
       => /\ last.res.statusCode = 201 <=> AmountInRange(last.req.amount)
          /\ last.res.statusCode = 400 <=> ~AmountInRange(last.req.amount)
          /\ last.res.statusCode = 400 => last.res.message = "Validation failed"
          /\ last.res.statusCode = 201 => loans[last.res.loanId].amount = last.req.amount

C9_AmountRange ==
  /\ []C9_Accepted
  /\ [][(last'.req.op = "apply" /\ ~AmountInRange(last'.req.amount))
          => loans' = loans /\ auditLogs' = auditLogs]_vars

\* C9 witness: loans of both limit amounts are in the store and an
\* application of 5000001 has just been refused.
C9_Witness ==
  /\ OtherwiseValidApplication(last.req)
  /\ last.req.amount = 5000001
  /\ last.res.statusCode = 400
  /\ \E i \in LoanIds : loans[i].amount = 1000
  /\ \E i \in LoanIds : loans[i].amount = 5000000

\* C10: an unfiltered list holds only loans of the caller's scope (own
\* applications for a CUSTOMER, applicant or merchant for a MERCHANT, PENDING
\* loans for a BANKER), each once, and as many of them as the limit allows.
InScope(loan, userId) ==
  CASE UserRole(userId) = "CUSTOMER" -> loan.applicantId = userId
    [] UserRole(userId) = "MERCHANT" ->
         loan.applicantId = userId \/ loan.merchantId = userId
    [] OTHER -> loan.status = "PENDING"

Min(a, b) == IF a < b THEN a ELSE b

Listed == {last.res.loans[k] : k \in 1..Len(last.res.loans)}

C10_ListScope ==
  (/\ last.req.op = "listLoans"
   /\ last.req.cred \in Users
   /\ last.req.status = NULL
   /\ last.req.type = NULL)
    => LET scope == {i \in LoanIds : InScope(loans[i], last.req.cred)}
           limit == IF last.req.limit = -1 THEN ControllerDefaultLimit
                    ELSE last.req.limit
       IN /\ last.res.statusCode = 200
          /\ Listed \subseteq scope
          /\ Cardinality(Listed) = Len(last.res.loans)
          /\ Len(last.res.loans) = Min(limit, Cardinality(scope))

\* C10 witness: a banker lists while one loan is decided and another one is
\* PENDING, and gets the PENDING one alone.
C10_Witness ==
  /\ last.req.op = "listLoans"
  /\ CallerHasRole("BANKER")
  /\ Len(last.res.loans) = 1
  /\ Len(loans) = 2
  /\ \E i \in LoanIds : loans[i].status \in Decided


\* C11: the filters of a list are ANDed on top of the role scope: every loan
\* of the answer is in the caller's scope (for a BANKER: it is PENDING) and
\* has the status and the type asked for, when one is asked for.
C11_FiltersAnded ==
  (/\ last.req.op = "listLoans"
   /\ last.req.cred \in Users)
    => \A i \in Listed :
         /\ InScope(loans[i], last.req.cred)
         /\ last.req.status # NULL => loans[i].status = last.req.status
         /\ last.req.type # NULL => loans[i].type = last.req.type


\* The merchant analytics were answered to the last request.
AnalyticsAnswered ==
  /\ last.req.op = "merchantAnalytics"
  /\ last.res.statusCode = 200

\* The scope of the analytics: the loans whose merchantId is the caller and
\* which have the status asked for, when one is asked for.
AnalyticsInScope ==
  {i \in LoanIds :
     /\ loans[i].merchantId = last.req.cred
     /\ last.req.status # NULL => loans[i].status = last.req.status}

\* C12: approvedLoans and totalApprovedAmount are computed over the APPROVED
\* loans of the scope totalLoans is counted over, so that approvedLoans is at
\* most totalLoans and approvalRate is between 0 and 100.
C12_ApprovedWithinScope ==
  AnalyticsAnswered =>
    LET approved == {i \in AnalyticsInScope : loans[i].status = "APPROVED"}
        a        == last.res.analytics
    IN /\ a.totalLoans = Cardinality(AnalyticsInScope)
       /\ a.approvedLoans = Cardinality(approved)
       /\ a.totalApprovedAmount = sumAmount(loans, approved)
       /\ a.approvedLoans <= a.totalLoans
       /\ a.approvalRate >= 0
       /\ a.approvalRate <= 100

\* C13: analytics over an empty scope are all zero.
C13_EmptyScopeAllZero ==
  (AnalyticsAnswered /\ AnalyticsInScope = {})
    => /\ last.res.analytics.totalLoans = 0
       /\ last.res.analytics.approvalRate = 0
       /\ last.res.analytics.totalApprovedAmount = 0
       /\ last.res.analytics.averageApprovalTimeDays = 0


KycDocIds == 1..Len(kycDocs)

KycDecided == {"VERIFIED", "REJECTED"}

\* C14: a KYC document follows UPLOADING -> PENDING -> VERIFIED | REJECTED:
\* a new row is UPLOADING, and a row becomes VERIFIED or REJECTED only from
\* PENDING, so that a verify request on a row that is still UPLOADING leaves
\* it neither VERIFIED nor REJECTED.
C14_KycLifecycle ==
  [][/\ Len(kycDocs') > Len(kycDocs)
          => kycDocs'[Len(kycDocs')].status = "UPLOADING"
     /\ \A d \in KycDocIds :
          (/\ kycDocs'[d].status \in KycDecided
           /\ kycDocs'[d].status # kycDocs[d].status)
            => kycDocs[d].status = "PENDING"]_vars

\* C15: a decided KYC document is never resurrected: a row that is VERIFIED
\* or REJECTED is not brought back to PENDING by any request.
C15_NoResurrection ==
  [][\A d \in KycDocIds :
       kycDocs[d].status \in KycDecided => kycDocs'[d].status # "PENDING"]_vars

\* C16: a KYC document in status UPLOADING has no url.
C16_UploadingHasNoUrl ==
  \A d \in KycDocIds : kycDocs[d].status = "UPLOADING" => kycDocs[d].url = 0

\* C18: a successful verify appends one audit entry whose action is
\* KYC_VERIFIED for the decision VERIFIED and KYC_REJECTED for the decision
\* REJECTED, with loanId null and the reviewer as actorId.
C18_VerifyAuditAction ==
  [][(/\ last'.req.op = "kycVerify"
      /\ last'.res.statusCode = 200)
       => /\ Len(auditLogs') = Len(auditLogs) + 1
          /\ SubSeq(auditLogs', 1, Len(auditLogs)) = auditLogs
          /\ LET entry == auditLogs'[Len(auditLogs')]
             IN /\ entry.action = IF last'.req.status = "VERIFIED"
                                    THEN "KYC_VERIFIED" ELSE "KYC_REJECTED"
                /\ entry.loanId = 0
                /\ entry.actorId = last'.req.cred]_vars


\* The request of this step is a verify that succeeded on document d with
\* the decision VERIFIED.
VerifiedNow(d) ==
  /\ last'.req.op = "kycVerify"
  /\ last'.res.statusCode = 200
  /\ last'.req.kycDocId = d
  /\ last'.req.status = "VERIFIED"
  /\ clock' # clock

\* C17: verifiedBy of a KYC document is non-null iff the document is
\* VERIFIED; a verify that succeeds with VERIFIED records its reviewer, no
\* other step changes the reviewer of a document that is VERIFIED after it,
\* and a document that is not VERIFIED after a step has no verifiedBy.
C17_VerifiedByIffVerified ==
  /\ [](\A d \in KycDocIds :
          kycDocs[d].verifiedBy # NULL <=> kycDocs[d].status = "VERIFIED")
  /\ [][\A d \in KycDocIds :
          /\ VerifiedNow(d) => kycDocs'[d].verifiedBy = last'.req.cred
          /\ (~VerifiedNow(d) /\ kycDocs'[d].status = "VERIFIED")
               => kycDocs'[d].verifiedBy = kycDocs[d].verifiedBy
          /\ kycDocs'[d].status # "VERIFIED" => kycDocs'[d].verifiedBy = NULL]_vars

\* C17 witness: a finalized document that banker b1 had rejected was verified
\* by banker b2, who is its verifiedBy.
C17_Witness ==
  /\ last.req.op = "kycVerify"
  /\ last.req.cred = "b2"
  /\ last.res.statusCode = 200
  /\ last.req.kycDocId \in KycDocIds
  /\ kycDocs[last.req.kycDocId].status = "VERIFIED"
  /\ kycDocs[last.req.kycDocId].verifiedBy = "b2"
  /\ \E j \in 1..Len(auditLogs) : auditLogs[j].action = "KYC_DOCUMENT_UPLOADED"
  /\ \E j \in 1..Len(auditLogs) :
        auditLogs[j].actorId = "b1" /\ auditLogs[j].action = kycAuditAction("KYC_REJECTED")


\* C19: completeUpload fails with 413 exactly when fileSize is above
\* 5242880, whatever the content type (the size is checked first), and then
\* leaves the documents and the audit log as they were.
C19_PayloadTooLarge ==
  /\ [](last.req.op = "KYCService.completeUpload"
          => (last.res.statusCode = 413 <=> last.req.fileSize > 5242880))
  /\ [][(/\ last'.req.op = "KYCService.completeUpload"
         /\ last'.req.fileSize > 5242880)
          => UNCHANGED <<kycDocs, auditLogs, awaiting>>]_vars

\* C19 witness: a finalization of 5242881 bytes with a content type outside
\* the allow-list, for a document that a banker has verified, failed with 413.
C19_Witness ==
  /\ last.req.op = "KYCService.completeUpload"
  /\ last.req.fileSize = 5242881
  /\ last.req.contentType = "text/plain"
  /\ last.res.statusCode = 413
  /\ last.req.kycDocId \in KycDocIds
  /\ kycDocs[last.req.kycDocId].status = "VERIFIED"
  /\ kycDocs[last.req.kycDocId].verifiedBy = "b1"

\* C20: a finalization with an acceptable size and a content type outside
\* the allow-list, asked through POST /kyc/complete-upload by a customer or
\* a merchant, is answered 415 and leaves the documents and the audit log
\* as they were.
UnsupportedUpload(req) ==
  /\ req.op = "kycCompleteUpload"
  /\ req.cred \in Users
  /\ UserRole(req.cred) \in {"CUSTOMER", "MERCHANT"}
  /\ req.fileSize >= 1
  /\ req.fileSize <= 5242880
  /\ req.contentType \notin {"image/jpeg", "image/png", "application/pdf"}

C20_UnsupportedMediaType ==
  /\ [](UnsupportedUpload(last.req) => last.res.statusCode = 415)
  /\ [][UnsupportedUpload(last'.req) => UNCHANGED <<kycDocs, auditLogs, awaiting>>]_vars


\* The completion of a list of documents was computed and answered.
CompletionAnswered ==
  /\ last.req.op = "calculateKYCCompletion"
  /\ last.res.message = "returned"

Elements(seq) == {seq[k] : k \in 1..Len(seq)}

\* The types of the documents of the request that have this status.
TypesWithStatus(status) ==
  {last.req.documents[k].type :
     k \in {j \in 1..Len(last.req.documents) : last.req.documents[j].status = status}}

\* C21: requiredDocuments(r, t) is the same list whenever it is computed for
\* the same role and loan type, holds no type twice and holds every type of
\* requiredDocuments(r, null).
C21_RequiredDeterministicSuperset ==
  CompletionAnswered =>
    LET required == last.res.requiredDocuments
    IN /\ required = getRequiredDocuments(last.req.role, last.req.type)
       /\ \A j, k \in 1..Len(required) : required[j] = required[k] => j = k
       /\ Elements(getRequiredDocuments(last.req.role, NULL)) \subseteq Elements(required)

\* C21 witness: the documents required of a merchant for a BUSINESS loan,
\* whose loan-specific type is already in the merchant's base set.
C21_Witness ==
  /\ CompletionAnswered
  /\ last.req.role = "MERCHANT"
  /\ last.req.type = "BUSINESS"
  /\ Len(last.res.requiredDocuments) = 4

\* The static table of the required documents.
BaseSet(role) ==
  CASE role = "CUSTOMER" -> {"ID_PROOF", "ADDRESS_PROOF", "PAN_CARD"}
    [] role = "MERCHANT" -> {"ID_PROOF", "ADDRESS_PROOF", "PAN_CARD", "BANK_STATEMENT"}
    [] role = "BANKER"   -> {}

ExtraSet(loanType) ==
  CASE loanType \in {"BUSINESS", "EQUIPMENT"} -> {"BANK_STATEMENT"}
    [] loanType = "VEHICLE"                   -> {"ADDRESS_PROOF"}
    [] OTHER                                  -> {}

\* C22: requiredDocuments(role, loanType) is the base set of the role united
\* with the types the loan type adds.
C22_RequiredTable ==
  CompletionAnswered =>
    Elements(last.res.requiredDocuments) = BaseSet(last.req.role) \cup ExtraSet(last.req.type)

\* C22 witness: the documents required of a customer for an EQUIPMENT loan:
\* the three base types and BANK_STATEMENT.
C22_Witness ==
  /\ CompletionAnswered
  /\ last.req.role = "CUSTOMER"
  /\ last.req.type = "EQUIPMENT"
  /\ Elements(last.res.requiredDocuments) =
       {"ID_PROOF", "ADDRESS_PROOF", "PAN_CARD", "BANK_STATEMENT"}

\* C23: the completion is 0% when there is no document and something is
\* required; it is 100% exactly when something is required and every
\* required type has a VERIFIED document; and its status is COMPLETE exactly
\* when it is 100%.
C23_CompletionPercent ==
  CompletionAnswered =>
    LET required == last.res.requiredDocuments
        c        == last.res.completion
    IN /\ (last.req.documents = <<>> /\ required # <<>>) => c.percentComplete = 0
       /\ c.percentComplete = 100
            <=> (required # <<>> /\ Elements(required) \subseteq TypesWithStatus("VERIFIED"))
       /\ c.status = "COMPLETE" <=> c.percentComplete = 100

\* C23 witness: a customer whose three required types each have a VERIFIED
\* document is 100% complete.
C23_Witness ==
  /\ CompletionAnswered
  /\ last.req.role = "CUSTOMER"
  /\ last.req.type = NULL
  /\ Len(last.req.documents) = 3
  /\ last.res.completion.percentComplete = 100
  /\ last.res.completion.status = "COMPLETE"

\* C24: each required type is counted once, as completed when it has a
\* VERIFIED document and as pending when it has a PENDING document and no
\* VERIFIED one, so that completed + pending is at most the number of
\* required types and incomplete is not negative.
C24_VerifiedPrecedence ==
  CompletionAnswered =>
    LET required == Elements(last.res.requiredDocuments)
        c        == last.res.completion
    IN /\ c.completed = Cardinality(required \cap TypesWithStatus("VERIFIED"))
       /\ c.pending = Cardinality((required \cap TypesWithStatus("PENDING"))
                                    \ TypesWithStatus("VERIFIED"))
       /\ c.completed + c.pending <= Cardinality(required)
       /\ c.incomplete >= 0


\* This step committed the primary change of an operation that writes an
\* audit entry, and the entry was not written.
AuditWriteFailed ==
  /\ last'.req.op \in {"apply", "approve", "reject", "kycCompleteUpload", "kycVerify"}
  /\ clock' # clock
  /\ auditLogs' = auditLogs

\* C25: an audit write that fails does not fail the operation: the caller is
\* answered success and the primary change is in the store: the new loan,
\* the loan's new status and banker, the document's new status.
C25_AuditNeverFailsOperation ==
  [][AuditWriteFailed =>
       CASE last'.req.op = "apply" ->
              /\ last'.res.statusCode = 201
              /\ Len(loans') = Len(loans) + 1
              /\ last'.res.loanId = Len(loans')
              /\ loans'[Len(loans')].applicantId = last'.req.cred
         [] last'.req.op \in {"approve", "reject"} ->
              /\ last'.res.statusCode = 200
              /\ loans'[last'.req.loanId].status =
                   (IF last'.req.op = "approve" THEN "APPROVED" ELSE "REJECTED")
              /\ loans'[last'.req.loanId].bankerId = last'.req.cred
         [] last'.req.op = "kycCompleteUpload" ->
              /\ last'.res.statusCode = 200
              /\ kycDocs'[last'.req.kycDocId].status = "PENDING"
         [] last'.req.op = "kycVerify" ->
              /\ last'.res.statusCode = 200
              /\ kycDocs'[last'.req.kycDocId].status = last'.req.status]_vars

\* C25 witness: banker b1 was answered 200 to the approval of a loan whose
\* status and banker are recorded, while the audit log holds no entry of it.
C25_Witness ==
  /\ last.req.op = "approve"
  /\ last.res.statusCode = 200
  /\ loans[last.req.loanId].status = "APPROVED"
  /\ loans[last.req.loanId].bankerId = "b1"
  /\ \A j \in 1..Len(auditLogs) : auditLogs[j].action # "LOAN_APPROVED"


\* C26: a response to a KYC request of a CUSTOMER or a MERCHANT holds no KYC
\* document of another user: neither the document of data.kycDoc nor one of
\* data.documents.
C26_KycOwnerOnly ==
  (/\ last.req.op \in {"kycGetStatus", "kycGenerateUploadUrl", "kycCompleteUpload"}
   /\ last.req.cred \in Users
   /\ UserRole(last.req.cred) \in {"CUSTOMER", "MERCHANT"}
   /\ last.res.statusCode = 200)
    => /\ last.res.kycDocId # 0 => kycDocs[last.res.kycDocId].userId = last.req.cred
       /\ \A d \in Elements(last.res.documents) : kycDocs[d].userId = last.req.cred


(* ---- Users --------------------------------------------------------------- *)
UserIds == 1..Len(users)

EmailUsed(email) == \E i \in UserIds : users[i].email = email

PhoneUsed(phone) == \E i \in UserIds : users[i].phone = phone

\* The step in which the signup of proc calls createUser and answers.
CreateStep(proc) == signups[proc].pending /\ ~signups'[proc].pending

\* C27: no two users share an email or a phone; a createUser whose email or
\* phone is already used by an existing user answers 409 and creates no
\* user, also when its signup passed the existence check before the other
\* user was created; a signup answered 409 leaves the users as they were.
C27_UniqueEmailPhone ==
  /\ [](\A i, j \in UserIds :
          i # j => /\ users[i].email # users[j].email
                   /\ users[i].phone # users[j].phone)
  /\ [][/\ \A p \in SignupProcs :
             (CreateStep(p) /\ (EmailUsed(signups[p].email) \/ PhoneUsed(signups[p].phone)))
               => /\ users' = users
                  /\ last'.req.op = "signup"
                  /\ last'.req.proc = p
                  /\ last'.res.statusCode = 409
        /\ (last' # last /\ last'.req.op = "signup" /\ last'.res.statusCode = 409)
             => users' = users]_vars

\* Two signups with one email both passed the existence check; the second
\* createUser was refused on the email and the first one's user is the only
\* holder of it.
C27_Witness ==
  /\ last.req.op = "signup"
  /\ last.res.statusCode = 409
  /\ last.res.message = "Email already exists"
  /\ Cardinality({i \in UserIds : users[i].email = last.req.email}) = 1


\* A login request with a well-formed body has been answered.
LoginAnswered == last.req.op = "login" /\ validateLogin(last.req)

UnknownEmail == ~EmailUsed(last.req.email)

WrongPassword ==
  \E i \in UserIds : /\ users[i].email = last.req.email
                     /\ users[i].passwordHash # bcryptHash(last.req.password)

\* C28: a login with an unknown email and a login with a known email and a
\* wrong password get one and the same response, 401 "Invalid email or
\* password", which carries no user and no token.
C28_LoginFailureIndistinguishable ==
  (LoginAnswered /\ (UnknownEmail \/ WrongPassword))
    => last.res = ErrorResponse(Err(401, "Invalid email or password"))

\* A login that names a known email with a wrong password was refused, while
\* another email is still unknown.
C28_Witness ==
  /\ LoginAnswered
  /\ WrongPassword
  /\ last.res.statusCode = 401
  /\ last.res.token = 0
  /\ \E email \in WellFormedEmails : ~EmailUsed(email)


\* C29: every request that fails authentication gets the same response:
\* two requests in a row whose credentials are refused, whatever the check
\* that refused them, are answered with the same status and message.
C29_AuthFailuresCollapse ==
  [][(last.req.cred \in BadCredentials /\ last'.req.cred \in BadCredentials)
       => /\ last'.res.statusCode = last.res.statusCode
          /\ last'.res.message = last.res.message]_vars


\* The step is a call of updateUserProfile.
UpdateProfileStep == last' # last /\ last'.req.op = "UserService.updateUserProfile"

\* C30: no step changes the role, email, id or password hash of an existing
\* user, and no user disappears; a call of updateUserProfile changes nothing
\* but the name and the phone of the user it names, each only to the value
\* its input gives for it, whatever else the input holds.
C30_RoleImmutable ==
  [][/\ Len(users') >= Len(users)
     /\ \A i \in UserIds :
          /\ users'[i].role = users[i].role
          /\ users'[i].email = users[i].email
          /\ users'[i].id = users[i].id
          /\ users'[i].passwordHash = users[i].passwordHash
     /\ UpdateProfileStep =>
          /\ Len(users') = Len(users)
          /\ \A i \in UserIds :
               /\ i # last'.req.userId => users'[i] = users[i]
               /\ users'[i].name \in {users[i].name, last'.req.updateData.name}
               /\ users'[i].phone \in {users[i].phone, last'.req.updateData.phone}]_vars

\* updateUserProfile was given a name and a role, email for a customer: it
\* returned, the name is the new one and the role and email are the old ones.
C30_Witness ==
  /\ last.req.op = "UserService.updateUserProfile"
  /\ last.req.updateData.role = "BANKER"
  /\ last.req.updateData.name = "n2"
  /\ last.res.userId = last.req.userId
  /\ last.req.userId \in UserIds
  /\ users[last.req.userId].name = "n2"
  /\ users[last.req.userId].role = "CUSTOMER"
  /\ users[last.req.userId].email # last.req.updateData.email


\* The review queue has been answered, and the documents it holds.
QueueAnswered == last.req.op = "kycGetPendingForReview" /\ last.res.statusCode = 200

QueueLimit == IF last.req.limit = -1 THEN KycDefaultLimit ELSE last.req.limit

PendingDocs == {d \in KycDocIds : kycDocs[d].status = "PENDING"}

\* The queue is the oldest PENDING documents, oldest first, at most limit.
QueueIsOldestPending ==
  QueueAnswered =>
    LET q == last.res.documents
    IN /\ Len(q) <= QueueLimit
       /\ Elements(q) \subseteq PendingDocs
       /\ \A i, j \in 1..Len(q) :
            i < j => kycDocs[q[i]].createdAt < kycDocs[q[j]].createdAt
       /\ \A d \in PendingDocs \ Elements(q) :
            /\ Len(q) = QueueLimit
            /\ \A i \in 1..Len(q) : kycDocs[q[i]].createdAt < kycDocs[d].createdAt

\* C31: the review queue holds only PENDING documents, oldest createdAt
\* first, at most limit of them, and a document that is VERIFIED or REJECTED
\* never appears in the queue again: no step puts a decided document among
\* the documents GET /kyc/pending returns.
C31_ReviewQueue ==
  /\ []QueueIsOldestPending
  /\ [][\A d \in KycDocIds :
          kycDocs[d].status \in KycDecided
            => d \notin Elements(getPendingKYCForReview(kycDocs', KycDefaultLimit))]_vars


(* ---- Overlapping requests ------------------------------------------------ *)
\* The request of proc is a decision whose update has committed and whose
\* audit entry is not written yet.
Deciding(proc) == awaiting[proc].pending /\ awaiting[proc].req.op \in {"approve", "reject"}

DecidedStatus(proc) ==
  IF awaiting[proc].req.op = "approve" THEN "APPROVED" ELSE "REJECTED"

\* The step in which the request of proc commits its primary write, and the
\* step in which it writes its audit entry and answers.
UpdateStep(proc) == ~awaiting[proc].pending /\ awaiting'[proc].pending

AuditStep(proc) == awaiting[proc].pending /\ ~awaiting'[proc].pending

\* The (status, bankerId) pair of the loan is the one a decision wrote: a
\* decision still in its handler, or one the audit log records.
PairWrittenByOneRequest(i) ==
  \/ \E p \in RequestProcs :
       /\ Deciding(p)
       /\ awaiting[p].loanId = i
       /\ loans[i].status = DecidedStatus(p)
       /\ loans[i].bankerId = awaiting[p].actorId
  \/ \E k \in 1..Len(auditLogs) :
       /\ auditLogs[k].loanId = i
       /\ auditLogs[k].action = auditAction(loans[i].status)
       /\ auditLogs[k].actorId = loans[i].bankerId

\* C32: decisions on one loan that overlap are not serialized: each one's
\* update is applied over the other's and each is answered 200; the loan's
\* (status, bankerId) is the pair of the request that wrote last, and at no
\* time the status of one request with the bankerId of another.
C32_LastWriterPair ==
  /\ [](\A i \in LoanIds : loans[i].status # "PENDING" => PairWrittenByOneRequest(i))
  /\ [][\A p \in RequestProcs :
          /\ (UpdateStep(p) /\ awaiting'[p].req.op \in {"approve", "reject"})
               => LET i == awaiting'[p].loanId
                  IN /\ loans'[i].bankerId = awaiting'[p].actorId
                     /\ loans'[i].status =
                          (IF awaiting'[p].req.op = "approve" THEN "APPROVED" ELSE "REJECTED")
          /\ (AuditStep(p) /\ Deciding(p))
               => /\ last'.res.statusCode = 200
                  /\ last'.req.proc = p]_vars

\* Two bankers are deciding the same loan at once, one approving and one
\* rejecting: both updates have committed and neither has answered yet.
C32_Witness ==
  /\ Deciding(1) /\ Deciding(2)
  /\ awaiting[1].loanId = awaiting[2].loanId
  /\ awaiting[1].actorId # awaiting[2].actorId
  /\ DecidedStatus(1) # DecidedStatus(2)
  /\ loans[awaiting[1].loanId].status = DecidedStatus(2)
  /\ loans[awaiting[1].loanId].bankerId = awaiting[2].actorId


\* The audit entries a step appends.
Appended == SubSeq(auditLogs', Len(auditLogs) + 1, Len(auditLogs'))

\* The mutation an audit entry of a loan records is in the store.
MutationApplied(loanTable, e) ==
  /\ e.loanId \in 1..Len(loanTable)
  /\ e.action = "LOAN_CREATED" => loanTable[e.loanId].applicantId = e.actorId
  /\ e.action \in {"LOAN_APPROVED", "LOAN_REJECTED"} =>
       /\ loanTable[e.loanId].status \in validStatuses
       /\ loanTable[e.loanId].bankerId # NULL

\* The entry is the one of this request, and the request's mutation is in
\* the store.
RecordsRequest(e, req, res) ==
  /\ e.actorId = req.cred
  /\ CASE req.op = "apply" ->
            /\ e.action = "LOAN_CREATED"
            /\ e.loanId = res.loanId
            /\ MutationApplied(loans, e)
       [] req.op = "approve" ->
            /\ e.action = "LOAN_APPROVED"
            /\ e.loanId = req.loanId
            /\ MutationApplied(loans, e)
       [] req.op = "reject" ->
            /\ e.action = "LOAN_REJECTED"
            /\ e.loanId = req.loanId
            /\ MutationApplied(loans, e)
       [] req.op = "kycVerify" ->
            /\ e.action = (IF req.status = "VERIFIED"
                             THEN "KYC_KYC_VERIFIED" ELSE "KYC_KYC_REJECTED")
            /\ e.loanId = 0
            /\ req.kycDocId \in KycDocIds
            /\ kycDocs[req.kycDocId].status \in KycDecided
       [] OTHER -> FALSE

\* C33: an audit entry is written only after the mutation it records has
\* committed: the loan of every LOAN_ entry in the log exists and was created
\* by the entry's actor or has been decided; every entry is appended by a
\* request whose own mutation was in the store before the step; a request
\* that is answered with an error appends no entry.
C33_AuditAfterCommit ==
  /\ [](\A k \in 1..Len(auditLogs) :
          auditLogs[k].loanId # 0 => MutationApplied(loans, auditLogs[k]))
  /\ [][/\ Len(auditLogs') >= Len(auditLogs)
        /\ \A k \in 1..Len(Appended) :
             \E p \in RequestProcs :
               /\ AuditStep(p)
               /\ RecordsRequest(Appended[k], awaiting[p].req, awaiting[p].res)
        /\ (last' # last /\ last'.res.statusCode >= 400) => auditLogs' = auditLogs]_vars

\* The log holds the entry of a decision made on a loan, written after the
\* decision's update, while a second decision has committed its update and
\* has not written its entry yet.
C33_Witness ==
  /\ Len(auditLogs) >= 2
  /\ auditLogs[Len(auditLogs)].action \in {"LOAN_APPROVED", "LOAN_REJECTED"}
  /\ \E p \in RequestProcs : Deciding(p)


\* The requests that read the store.
ReadOps ==
  {"getStatus", "listLoans", "merchantAnalytics", "kycGetStatus", "kycGetRequired",
   "kycGetPendingForReview", "kycGetForReview"}

\* C34: the audit trail is append-only: every step leaves the entries of the
\* log in place and unchanged, adding at most one at the end, and a request
\* that reads (a loan's status, a list, the analytics, the KYC status, the
\* required documents, the review queue) appends nothing.
C34_AuditAppendOnly ==
  [][/\ Len(auditLogs') \in {Len(auditLogs), Len(auditLogs) + 1}
     /\ SubSeq(auditLogs', 1, Len(auditLogs)) = auditLogs
     /\ (last' # last /\ last'.req.op \in ReadOps) => auditLogs' = auditLogs]_vars

\* A read request was answered 200 over a log of two entries, the first one
\* still the LOAN_CREATED entry of the loan.
C34_Witness ==
  /\ Len(auditLogs) = 2
  /\ auditLogs[1].action = "LOAN_CREATED"
  /\ last.req.op \in ReadOps
  /\ last.res.statusCode = 200


\* C35: a POST /kyc/complete-upload made by a principal changes the status,
\* url or verifiedBy of a document only if the document's userId is that
\* principal.
C35_FinalizeOwnOnly ==
  [][(last' # last /\ last'.req.op = "kycCompleteUpload") =>
       \A d \in KycDocIds :
         (\/ kycDocs'[d].status # kycDocs[d].status
          \/ kycDocs'[d].url # kycDocs[d].url
          \/ kycDocs'[d].verifiedBy # kycDocs[d].verifiedBy)
           => kycDocs[d].userId = last'.req.cred]_vars


\* No request is between its primary write and its audit entry.
Quiescent == \A p \in RequestProcs : ~awaiting[p].pending

\* The action that records the status of a loan.
StatusAction(status) ==
  IF status = "PENDING" THEN "LOAN_CREATED" ELSE auditAction(status)

\* C36: with no audit write failing, in every state where no request is in
\* its handler the most recent audit entry of each loan agrees with the
\* loan's status.
C36_LatestEntryAgrees ==
  Quiescent =>
    \A i \in LoanIds :
      LET entries == NewestFirst(auditLogs, i)
      IN /\ entries # <<>>
         /\ auditLogs[entries[1]].action = StatusAction(loans[i].status)


\* The step is a decision that was answered.
DecideStep == last' # last /\ last'.req.op \in {"approve", "reject"}

\* C37: the type, amount, applicantId, merchantId and createdAt of a loan
\* never change and no loan disappears; a decide changes nothing but the
\* status, bankerId and updatedAt of the loan it names, and leaves every
\* other loan and every KYC document as it was.
C37_DecideFrame ==
  [][/\ Len(loans') >= Len(loans)
     /\ \A i \in LoanIds :
          /\ loans'[i].id = loans[i].id
          /\ loans'[i].type = loans[i].type
          /\ loans'[i].amount = loans[i].amount
          /\ loans'[i].applicantId = loans[i].applicantId
          /\ loans'[i].merchantId = loans[i].merchantId
          /\ loans'[i].createdAt = loans[i].createdAt
     /\ DecideStep =>
          /\ Len(loans') = Len(loans)
          /\ kycDocs' = kycDocs
          /\ \A i \in LoanIds : i # last'.req.loanId => loans'[i] = loans[i]]_vars

\* A rejection of the second of two loans was answered 200: that loan is
\* REJECTED by the banker, the first one is still PENDING with no banker, and
\* the KYC document registered before is as it was.
C37_Witness ==
  /\ last.req.op = "reject"
  /\ Len(kycDocs) = 1
  /\ kycDocs[1].status = "UPLOADING"
  /\ last.res.statusCode = 200
  /\ last.req.loanId = 2
  /\ Len(loans) = 2
  /\ loans[2].status = "REJECTED"
  /\ loans[2].bankerId = last.req.cred
  /\ loans[2].updatedAt > loans[2].createdAt
  /\ loans[1].status = "PENDING"
  /\ loans[1].bankerId = NULL


\* C38: the completion summary of GET /kyc/status is the same whatever status
\* filter the request carries: two requests of one caller answered in a row,
\* over the same store, get the same completion.
C38_CompletionIgnoresFilter ==
  [][(/\ last.req.op = "kycGetStatus" /\ last.res.statusCode = 200
      /\ last'.req.op = "kycGetStatus" /\ last'.res.statusCode = 200
      /\ last'.req.cred = last.req.cred
      /\ kycDocs' = kycDocs)
       => last'.res.completion = last.res.completion]_vars


LoanDecided == {"APPROVED", "REJECTED"}

\* C39: a loan that is APPROVED or REJECTED is APPROVED or REJECTED after
\* every step: no request returns it to PENDING.
C39_NeverBackToPending ==
  [][\A i \in LoanIds :
       loans[i].status \in LoanDecided => loans'[i].status \in LoanDecided]_vars

\* A loan that was approved has been decided again, by the other banker, and
\* is REJECTED: the log holds both decisions.
C39_Witness ==
  /\ \E i \in LoanIds :
       /\ loans[i].status = "REJECTED"
       /\ \E k \in 1..Len(auditLogs) :
            /\ auditLogs[k].loanId = i
            /\ auditLogs[k].action = "LOAN_APPROVED"
            /\ auditLogs[k].actorId # loans[i].bankerId
  /\ last.req.op = "reject"
  /\ last.res.statusCode = 200

====
